---- MODULE Spec2Model ----
(***************************************************************************)
(* Record types of Biosimulations_utils (Model, Parameter, Variable,       *)
(* Simulation and its variants, Algorithm, AlgorithmParameter,             *)
(* ParameterChange, Simulator), their JSON export/import and semantic      *)
(* equality, and the recommended-range computation of the SBML reader.     *)
(*                                                                         *)
(* Every Python value is a record with a field cls naming its class:       *)
(* None, str, float, list, tuple, dict, and one class per record type.     *)
(* Python's == between values of unrelated classes is then plain =, which  *)
(* is FALSE, and None == None is TRUE.                                     *)
(* The outcome of an expression that may raise is one of the strings       *)
(* "True", "False", "TypeError", "AttributeError".                         *)
(***************************************************************************)
EXTENDS Integers, Sequences, FiniteSets, TLC

VARIABLES pc, cls, obj, other, json, ret

vars == <<pc, cls, obj, other, json, ret>>

(***************************************************************************)
(* Python values                                                           *)
(***************************************************************************)
None == [cls |-> "NoneType"]

Str(s) == [cls |-> "str", s |-> s]

Num(n) == [cls |-> "float", n |-> n]

PyList(items) == [cls |-> "list", items |-> items]

PyTuple(items) == [cls |-> "tuple", items |-> items]

\* an exception raised in place of a value
Raise(exc) == [cls |-> "raise", exc |-> exc]

\* a dict literal: d is a function from key strings to values
Dict(d) == [cls |-> "dict", d |-> d]

\* bool(v): None, "", 0, [], () and {} are falsy, every other value is truthy
Truthy(v) ==
    CASE v.cls = "NoneType" -> FALSE
      [] v.cls = "str" -> v.s # ""
      [] v.cls = "float" -> v.n # 0
      [] v.cls \in {"list", "tuple"} -> v.items # <<>>
      [] v.cls = "dict" -> DOMAIN v.d # {}
      [] OTHER -> TRUE

\* v or []
OrEmptyList(v) == IF Truthy(v) THEN v ELSE PyList(<<>>)

\* val.get(key, default)
Get(val, key, default) == IF key \in DOMAIN val.d THEN val.d[key] ELSE default

RECURSIVE FirstNotTrue(_)
FirstNotTrue(rs) ==
    IF rs = <<>> THEN "True"
    ELSE IF Head(rs) # "True" THEN Head(rs)
    ELSE FirstNotTrue(Tail(rs))

\* c1 and c2 and ... : the first conjunct that is not True decides; the later
\* ones are not evaluated
AndChain(rs) == FirstNotTrue(rs)

Bool(b) == IF b THEN "True" ELSE "False"

(***************************************************************************)
(* Ordering of values: Python's < on str, float and tuple                  *)
(***************************************************************************)
\* the strings of the model in lexicographic order
StrOrder == <<"", "00001", "00002", "CC0", "a", "b", "c", "float", "integer",
              "m1", "m2", "p1", "p2", "t1", "t2">>

Rank(s) == CHOOSE i \in 1..Len(StrOrder) : StrOrder[i] = s

\* index of the first position at which two sequences differ, 0 when one is a
\* prefix of the other
FirstDiff(xs, ys) ==
    LET n == IF Len(xs) < Len(ys) THEN Len(xs) ELSE Len(ys)
        D == {i \in 1..n : xs[i] # ys[i]}
    IN IF D = {} THEN 0 ELSE CHOOSE i \in D : \A j \in D : i <= j

\* a < b: "True", "False", or "TypeError" when the two are not orderable
\* (None on either side, or values of different classes)
RECURSIVE PyLT(_, _)
PyLT(a, b) ==
    IF a.cls = "str" /\ b.cls = "str" THEN Bool(Rank(a.s) < Rank(b.s))
    ELSE IF a.cls = "float" /\ b.cls = "float" THEN Bool(a.n < b.n)
    ELSE IF a.cls = "tuple" /\ b.cls = "tuple" THEN
        LET i == FirstDiff(a.items, b.items)
        IN IF i = 0 THEN Bool(Len(a.items) < Len(b.items))
           ELSE PyLT(a.items[i], b.items[i])
    ELSE "TypeError"

\* sorted(lst, key=...) raises TypeError when a comparison it makes does.
\* A sort of two or more elements compares every element at least once, and
\* for lists of up to three keys a pair that is never compared is ordered by
\* the two comparisons made through the third key, so the sort raises exactly
\* when some pair of keys is unorderable.
SortRaises(keys) ==
    \E i, j \in 1..Len(keys) : i < j /\ PyLT(keys[i], keys[j]) = "TypeError"

\* insert the pair p = <<key, element>> into the sorted sequence of pairs,
\* after every pair whose key is not greater (the sort is stable)
RECURSIVE InsertByKey(_, _)
InsertByKey(sortedPairs, p) ==
    IF sortedPairs = <<>> THEN <<p>>
    ELSE IF PyLT(p[1], Head(sortedPairs)[1]) = "True" THEN <<p>> \o sortedPairs
    ELSE <<Head(sortedPairs)>> \o InsertByKey(Tail(sortedPairs), p)

RECURSIVE SortPairs(_)
SortPairs(pairs) ==
    IF pairs = <<>> THEN <<>>
    ELSE InsertByKey(SortPairs(SubSeq(pairs, 1, Len(pairs) - 1)), pairs[Len(pairs)])

\* variant: the list is compared in the order it has
Sorted_Unsorted(items, keys) == items

\* sorted(items, key): keys[i] is the key of items[i]; used when it does not raise
Sorted(items, keys) ==
    LET ps == SortPairs([i \in 1..Len(items) |-> <<keys[i], items[i]>>])
    IN [i \in 1..Len(items) |-> ps[i][2]]

\* f(x), the function f named as in the source
RECURSIVE Call(_, _)

\* [f(x) for x in lst.items]
MapItems(lst, f) == [i \in 1..Len(lst.items) |-> Call(f, lst.items[i])]

(***************************************************************************)
(* Value types of the package's data_model module (Format, Identifier,     *)
(* JournalReference, OntologyTerm, Person, RemoteFile, Taxon, User and     *)
(* the enumerations License and Type): value objects whose to_json and     *)
(* from_json are inverses, with field-wise equality and a sort key made    *)
(* of their fields.                                                        *)
(***************************************************************************)
AuxFields(c) ==
    CASE c = "Format" -> <<"id", "name", "version">>
      [] c = "Identifier" -> <<"namespace", "id">>
      [] c = "JournalReference" -> <<"title", "year">>
      [] c = "OntologyTerm" -> <<"ontology", "id">>
      [] c = "Person" -> <<"last_name", "first_name">>
      [] c = "RemoteFile" -> <<"id", "name", "type">>
      [] c = "Taxon" -> <<"id", "name">>
      [] c = "User" -> <<"id">>

Range(f) == {f[i] : i \in DOMAIN f}

Aux_to_json(x) == Dict([k \in Range(AuxFields(x.cls)) |-> x[k]])

Aux_from_json(c, val) ==
    [k \in Range(AuxFields(c)) \cup {"cls"} |->
        IF k = "cls" THEN c ELSE Get(val, k, None)]

Aux_sort_key(x) ==
    PyTuple([i \in 1..Len(AuxFields(x.cls)) |-> x[AuxFields(x.cls)[i]]])

\* a member of an enumeration, License.cc0 or Type.float
Enum(c, value) == [cls |-> c, value |-> value]

\* License(value), Type(value): the member with that value
Enum_call(c, value) == Enum(c, value)

(***************************************************************************)
(* Equality of values: x == y                                              *)
(***************************************************************************)
RECURSIVE PyEq(_, _)

\* lst1 == lst2 for two sequences of items: unequal lengths are unequal without
\* comparing items, else the first pair of items that is not equal decides
ListEq(xs, ys) ==
    IF Len(xs) # Len(ys) THEN "False"
    ELSE AndChain([i \in 1..Len(xs) |-> PyEq(xs[i], ys[i])])

\* the exception raised while the keys of a sort are computed, "" when none is;
\* sorted() computes the key of every element before it compares any
KeyError(keys) ==
    LET R == {i \in 1..Len(keys) : keys[i].cls = "raise"}
    IN IF R = {} THEN "" ELSE keys[CHOOSE i \in R : \A j \in R : i <= j].exc

\* sorted(a, key=...) == sorted(b, key=...): the left sort runs first
SortedEq(xs, kx, ys, ky) ==
    IF KeyError(kx) # "" THEN KeyError(kx)
    ELSE IF SortRaises(kx) THEN "TypeError"
    ELSE IF KeyError(ky) # "" THEN KeyError(ky)
    ELSE IF SortRaises(ky) THEN "TypeError"
    ELSE ListEq(Sorted(xs, kx), Sorted(ys, ky))

\* sorted(a.items, key=Cls.sort_key) == sorted(b.items, key=Cls.sort_key)
SortedByEq(a, b, key) ==
    SortedEq(a.items, MapItems(a, key), b.items, MapItems(b, key))

Identity(x) == x

(***************************************************************************)
(* Parameter (model/data_model.py)                                         *)
(***************************************************************************)
Parameter(target, group, id, name, description, identifiers, type, value, recommended_range, units) ==
    [cls |-> "Parameter", target |-> target, group |-> group, id |-> id,
     name |-> name, description |-> description,
     identifiers |-> OrEmptyList(identifiers), type |-> type, value |-> value,
     recommended_range |-> recommended_range, units |-> units]

Parameter_eq(self, o) ==
    IF o.cls # "Parameter" THEN "False"
    ELSE AndChain(<<
        PyEq(self.target, o.target),
        PyEq(self.group, o.group),
        PyEq(self.id, o.id),
        PyEq(self.name, o.name),
        PyEq(self.description, o.description),
        SortedByEq(self.identifiers, o.identifiers, "Aux_sort_key"),
        PyEq(self.type, o.type),
        PyEq(self.value, o.value),
        PyEq(self.recommended_range, o.recommended_range),
        PyEq(self.units, o.units) >>)

Parameter_to_json(self) ==
    Dict([target |-> self.target,
          group |-> self.group,
          id |-> self.id,
          name |-> self.name,
          description |-> self.description,
          identifiers |-> PyList(MapItems(self.identifiers, "Aux_to_json")),
          type |-> IF Truthy(self.type) THEN self.type.value ELSE None,
          value |-> self.value,
          recommendedRange |-> self.recommended_range,
          units |-> self.units])

Identifier_from_json(val) == Aux_from_json("Identifier", val)

Parameter_from_json(val) ==
    Parameter(
        Get(val, "target", None),
        Get(val, "group", None),
        Get(val, "id", None),
        Get(val, "name", None),
        Get(val, "description", None),
        PyList(MapItems(Get(val, "identifiers", PyList(<<>>)), "Identifier_from_json")),
        IF Truthy(Get(val, "type", None)) THEN Enum_call("Type", Get(val, "type", None))
        ELSE None,
        Get(val, "value", None),
        Get(val, "recommendedRange", None),
        Get(val, "units", None))

Parameter_sort_key(parameter) == parameter.id

(***************************************************************************)
(* Variable (model/data_model.py)                                          *)
(***************************************************************************)
Variable(target, group, id, name, description, identifiers, type, units) ==
    [cls |-> "Variable", target |-> target, group |-> group, id |-> id,
     name |-> name, description |-> description,
     identifiers |-> OrEmptyList(identifiers), type |-> type, units |-> units]

Variable_eq(self, o) ==
    IF o.cls # "Variable" THEN "False"
    ELSE AndChain(<<
        PyEq(self.target, o.target),
        PyEq(self.group, o.group),
        PyEq(self.id, o.id),
        PyEq(self.name, o.name),
        PyEq(self.description, o.description),
        SortedByEq(self.identifiers, o.identifiers, "Aux_sort_key"),
        PyEq(self.type, o.type),
        PyEq(self.units, o.units) >>)

Variable_to_json(self) ==
    Dict([target |-> self.target,
          group |-> self.group,
          id |-> self.id,
          name |-> self.name,
          description |-> self.description,
          identifiers |-> PyList(MapItems(self.identifiers, "Aux_to_json")),
          type |-> IF Truthy(self.type) THEN self.type.value ELSE None,
          units |-> self.units])

Variable_from_json(val) ==
    Variable(
        Get(val, "target", None),
        Get(val, "group", None),
        Get(val, "id", None),
        Get(val, "name", None),
        Get(val, "description", None),
        PyList(MapItems(Get(val, "identifiers", PyList(<<>>)), "Identifier_from_json")),
        IF Truthy(Get(val, "type", None)) THEN Enum_call("Type", Get(val, "type", None))
        ELSE None,
        Get(val, "units", None))

Variable_sort_key(variable) == variable.id

(***************************************************************************)
(* Model (model/data_model.py)                                             *)
(***************************************************************************)
Model(id, name, file, image, description, format, framework, taxon, tags, identifiers, refs, authors, license, parameters, variables) ==
    [cls |-> "Model", id |-> id, name |-> name, file |-> file, image |-> image,
     description |-> description, format |-> format, framework |-> framework,
     taxon |-> taxon, tags |-> OrEmptyList(tags),
     identifiers |-> OrEmptyList(identifiers), refs |-> OrEmptyList(refs),
     authors |-> OrEmptyList(authors), license |-> license,
     parameters |-> OrEmptyList(parameters), variables |-> OrEmptyList(variables)]

\* the taxon conjunct of Model.__eq__ (line 94): self.taxon == other.id
Model_eq_taxon(self, o) == PyEq(self.taxon, o.id)

Model_eq(self, o) ==
    IF o.cls # "Model" THEN "False"
    ELSE AndChain(<<
        PyEq(self.id, o.id),
        PyEq(self.name, o.name),
        PyEq(self.file, o.file),
        PyEq(self.image, o.image),
        PyEq(self.description, o.description),
        PyEq(self.format, o.format),
        PyEq(self.framework, o.framework),
        Model_eq_taxon(self, o),
        SortedByEq(self.tags, o.tags, "Identity"),
        SortedByEq(self.identifiers, o.identifiers, "Aux_sort_key"),
        SortedByEq(self.refs, o.refs, "Aux_sort_key"),
        SortedByEq(self.authors, o.authors, "Aux_sort_key"),
        PyEq(self.license, o.license),
        SortedByEq(self.parameters, o.parameters, "Parameter_sort_key"),
        SortedByEq(self.variables, o.variables, "Variable_sort_key") >>)

\* x.to_json() if x else None
ToJsonOrNone(x, f) == IF Truthy(x) THEN Call(f, x) ELSE None

\* Cls.from_json(val.get(key)) if val.get(key, None) else None
FromJsonOrNone(val, key, f) ==
    IF Truthy(Get(val, key, None)) THEN Call(f, Get(val, key, None)) ELSE None

\* x.value if x else None
ValueOrNone(x) == IF Truthy(x) THEN x.value ELSE None

Model_to_json(self) ==
    Dict([id |-> self.id,
          name |-> self.name,
          file |-> ToJsonOrNone(self.file, "Aux_to_json"),
          image |-> ToJsonOrNone(self.image, "Aux_to_json"),
          description |-> self.description,
          format |-> ToJsonOrNone(self.format, "Aux_to_json"),
          framework |-> ToJsonOrNone(self.framework, "Aux_to_json"),
          taxon |-> ToJsonOrNone(self.taxon, "Aux_to_json"),
          tags |-> OrEmptyList(self.tags),
          identifiers |-> PyList(MapItems(self.identifiers, "Aux_to_json")),
          refs |-> PyList(MapItems(self.refs, "Aux_to_json")),
          authors |-> PyList(MapItems(self.authors, "Aux_to_json")),
          license |-> ValueOrNone(self.license),
          parameters |-> PyList(MapItems(self.parameters, "Parameter_to_json")),
          variables |-> PyList(MapItems(self.variables, "Variable_to_json"))])

RemoteFile_from_json(val) == Aux_from_json("RemoteFile", val)

Format_from_json(val) == Aux_from_json("Format", val)

OntologyTerm_from_json(val) == Aux_from_json("OntologyTerm", val)

Taxon_from_json(val) == Aux_from_json("Taxon", val)

JournalReference_from_json(val) == Aux_from_json("JournalReference", val)

Person_from_json(val) == Aux_from_json("Person", val)

License_call(value) == Enum_call("License", value)

Type_call(value) == Enum_call("Type", value)

Model_from_json(val) ==
    Model(
        Get(val, "id", None),
        Get(val, "name", None),
        FromJsonOrNone(val, "file", "RemoteFile_from_json"),
        FromJsonOrNone(val, "image", "RemoteFile_from_json"),
        Get(val, "description", None),
        FromJsonOrNone(val, "format", "Format_from_json"),
        FromJsonOrNone(val, "framework", "OntologyTerm_from_json"),
        FromJsonOrNone(val, "taxon", "Taxon_from_json"),
        Get(val, "tags", PyList(<<>>)),
        PyList(MapItems(Get(val, "identifiers", PyList(<<>>)), "Identifier_from_json")),
        PyList(MapItems(Get(val, "refs", PyList(<<>>)), "JournalReference_from_json")),
        PyList(MapItems(Get(val, "authors", PyList(<<>>)), "Person_from_json")),
        FromJsonOrNone(val, "license", "License_call"),
        PyList(MapItems(Get(val, "parameters", PyList(<<>>)), "Parameter_from_json")),
        PyList(MapItems(Get(val, "variables", PyList(<<>>)), "Variable_from_json")))

(***************************************************************************)
(* AlgorithmParameter (simulation/data_model.py)                           *)
(***************************************************************************)
AlgorithmParameter(id, name, type, value, recommended_range, kisao_id) ==
    [cls |-> "AlgorithmParameter", id |-> id, name |-> name, type |-> type,
     value |-> value, recommended_range |-> OrEmptyList(recommended_range),
     kisao_id |-> kisao_id]

AlgorithmParameter_eq(self, o) ==
    IF o.cls # self.cls THEN "False"
    ELSE AndChain(<<
        PyEq(self.id, o.id),
        PyEq(self.name, o.name),
        PyEq(self.type, o.type),
        PyEq(self.value, o.value),
        PyEq(self.recommended_range, o.recommended_range),
        PyEq(self.kisao_id, o.kisao_id) >>)

\* variant: the export writes no type
AlgorithmParameter_to_json_NoType(self) ==
    Dict([id |-> self.id,
          name |-> self.name,
          type |-> None,
          value |-> self.value,
          recommendedRange |-> self.recommended_range,
          kisaoId |-> self.kisao_id])

AlgorithmParameter_to_json(self) ==
    Dict([id |-> self.id,
          name |-> self.name,
          type |-> ValueOrNone(self.type),
          value |-> self.value,
          recommendedRange |-> self.recommended_range,
          kisaoId |-> self.kisao_id])

AlgorithmParameter_from_json(val) ==
    AlgorithmParameter(
        Get(val, "id", None),
        Get(val, "name", None),
        FromJsonOrNone(val, "type", "Type_call"),
        Get(val, "value", None),
        Get(val, "recommendedRange", PyList(<<>>)),
        Get(val, "kisaoId", None))

AlgorithmParameter_sort_key(parameter) ==
    PyTuple(<<parameter.id,
              parameter.name,
              ValueOrNone(parameter.type),
              parameter.value,
              PyTuple(parameter.recommended_range.items),
              parameter.kisao_id>>)

(***************************************************************************)
(* Algorithm (simulation/data_model.py)                                    *)
(***************************************************************************)
Algorithm(id, name, kisao_id, synonymous_kisao_ids, modeling_frameworks, model_formats, parameters) ==
    [cls |-> "Algorithm", id |-> id, name |-> name, kisao_id |-> kisao_id,
     synonymous_kisao_ids |-> OrEmptyList(synonymous_kisao_ids),
     modeling_frameworks |-> OrEmptyList(modeling_frameworks),
     model_formats |-> OrEmptyList(model_formats),
     parameters |-> OrEmptyList(parameters)]

Algorithm_eq(self, o) ==
    IF o.cls # self.cls THEN "False"
    ELSE AndChain(<<
        PyEq(self.id, o.id),
        PyEq(self.name, o.name),
        PyEq(self.kisao_id, o.kisao_id),
        SortedByEq(self.synonymous_kisao_ids, o.synonymous_kisao_ids, "Identity"),
        SortedByEq(self.modeling_frameworks, o.modeling_frameworks, "Aux_sort_key"),
        SortedByEq(self.model_formats, o.model_formats, "Aux_sort_key"),
        SortedByEq(self.parameters, o.parameters, "AlgorithmParameter_sort_key") >>)

Algorithm_to_json(self) ==
    Dict([id |-> self.id,
          name |-> self.name,
          kisaoId |-> self.kisao_id,
          synonymousKisaoIds |-> self.synonymous_kisao_ids,
          modelingFrameworks |-> PyList(MapItems(self.modeling_frameworks, "Aux_to_json")),
          modelFormats |-> PyList(MapItems(self.model_formats, "Aux_to_json")),
          parameters |-> PyList(MapItems(self.parameters, "AlgorithmParameter_to_json"))])

Algorithm_from_json(val) ==
    Algorithm(
        Get(val, "id", None),
        Get(val, "name", None),
        Get(val, "kisaoId", None),
        Get(val, "synonymousKisaoIds", PyList(<<>>)),
        PyList(MapItems(Get(val, "modelingFrameworks", PyList(<<>>)), "OntologyTerm_from_json")),
        PyList(MapItems(Get(val, "modelFormats", PyList(<<>>)), "Format_from_json")),
        PyList(MapItems(Get(val, "parameters", PyList(<<>>)), "AlgorithmParameter_from_json")))

(***************************************************************************)
(* ParameterChange (simulation/data_model.py)                              *)
(***************************************************************************)
ParameterChange(parameter, value) ==
    [cls |-> "ParameterChange", parameter |-> parameter, value |-> value]

ParameterChange_eq(self, o) ==
    IF o.cls # self.cls THEN "False"
    ELSE AndChain(<<
        PyEq(self.parameter, o.parameter),
        PyEq(self.value, o.value) >>)

\* parameter.to_json(): the method of the parameter's class, the model's
\* Parameter (imported as ModelParameter) or AlgorithmParameter
AnyParameter_to_json(parameter) ==
    IF parameter.cls = "Parameter" THEN Parameter_to_json(parameter)
    ELSE AlgorithmParameter_to_json(parameter)

ParameterChange_to_json(self) ==
    Dict([parameter |-> ToJsonOrNone(self.parameter, "AnyParameter_to_json"),
          value |-> self.value])

ParameterChange_from_json(val, ParameterType) ==
    ParameterChange(
        IF Truthy(Get(val, "parameter", None))
        THEN IF ParameterType = "Parameter"
             THEN Parameter_from_json(Get(val, "parameter", None))
             ELSE AlgorithmParameter_from_json(Get(val, "parameter", None))
        ELSE None,
        Get(val, "value", None))

\* (change.parameter.sort_key(change.parameter), change.value); None has no
\* attribute sort_key
ParameterChange_sort_key(change) ==
    IF change.parameter.cls = "Parameter"
    THEN PyTuple(<<Parameter_sort_key(change.parameter), change.value>>)
    ELSE IF change.parameter.cls = "AlgorithmParameter"
    THEN PyTuple(<<AlgorithmParameter_sort_key(change.parameter), change.value>>)
    ELSE Raise("AttributeError")

ModelParameterChange_from_json(val) == ParameterChange_from_json(val, "Parameter")

AlgorithmParameterChange_from_json(val) ==
    ParameterChange_from_json(val, "AlgorithmParameter")

(***************************************************************************)
(* Simulation, TimecourseSimulation, SteadyStateSimulation                 *)
(* (simulation/data_model.py)                                              *)
(***************************************************************************)
\* Simulation.__init__, run for an instance of class c
Simulation(c, id, name, image, description, tags, identifiers, references, authors, license, format, model, model_parameter_changes, algorithm, algorithm_parameter_changes) ==
    [cls |-> c, id |-> id, name |-> name, image |-> image,
     description |-> description, tags |-> OrEmptyList(tags),
     identifiers |-> OrEmptyList(identifiers),
     references |-> OrEmptyList(references), authors |-> OrEmptyList(authors),
     license |-> license, format |-> format, model |-> model,
     model_parameter_changes |-> OrEmptyList(model_parameter_changes),
     algorithm |-> algorithm,
     algorithm_parameter_changes |-> OrEmptyList(algorithm_parameter_changes)]

\* the fields TimecourseSimulation adds to an instance
WithTimes(base, start_time, output_start_time, end_time, num_time_points) ==
    [k \in DOMAIN base \cup {"start_time", "output_start_time", "end_time",
                             "num_time_points"} |->
        CASE k = "start_time" -> start_time
          [] k = "output_start_time" -> output_start_time
          [] k = "end_time" -> end_time
          [] k = "num_time_points" -> num_time_points
          [] OTHER -> base[k]]

Simulation_eq(self, o) ==
    IF o.cls # self.cls THEN "False"
    ELSE AndChain(<<
        PyEq(self.id, o.id),
        PyEq(self.name, o.name),
        PyEq(self.image, o.image),
        PyEq(self.description, o.description),
        SortedByEq(self.tags, o.tags, "Identity"),
        SortedByEq(self.identifiers, o.identifiers, "Aux_sort_key"),
        SortedByEq(self.references, o.references, "Aux_sort_key"),
        SortedByEq(self.authors, o.authors, "Aux_sort_key"),
        PyEq(self.license, o.license),
        PyEq(self.format, o.format),
        PyEq(self.model, o.model),
        SortedByEq(self.model_parameter_changes, o.model_parameter_changes,
                   "ParameterChange_sort_key"),
        PyEq(self.algorithm, o.algorithm),
        SortedByEq(self.algorithm_parameter_changes, o.algorithm_parameter_changes,
                   "ParameterChange_sort_key") >>)

TimecourseSimulation_eq(self, o) ==
    IF Simulation_eq(self, o) # "True" THEN Simulation_eq(self, o)
    ELSE AndChain(<<
        PyEq(self.start_time, o.start_time),
        PyEq(self.output_start_time, o.output_start_time),
        PyEq(self.end_time, o.end_time),
        PyEq(self.num_time_points, o.num_time_points) >>)

Simulation_to_json(self) ==
    Dict([id |-> self.id,
          name |-> self.name,
          image |-> ToJsonOrNone(self.image, "Aux_to_json"),
          description |-> self.description,
          tags |-> OrEmptyList(self.tags),
          identifiers |-> PyList(MapItems(self.identifiers, "Aux_to_json")),
          references |-> PyList(MapItems(self.references, "Aux_to_json")),
          authors |-> PyList(MapItems(self.authors, "Aux_to_json")),
          license |-> ValueOrNone(self.license),
          format |-> ToJsonOrNone(self.format, "Aux_to_json"),
          model |-> ToJsonOrNone(self.model, "Model_to_json"),
          modelParameterChanges |->
              PyList(MapItems(self.model_parameter_changes, "ParameterChange_to_json")),
          algorithm |-> ToJsonOrNone(self.algorithm, "Algorithm_to_json"),
          algorithmParameterChanges |->
              PyList(MapItems(self.algorithm_parameter_changes, "ParameterChange_to_json"))])

TimeKeys == {"startTime", "outputStartTime", "endTime", "numTimePoints"}

TimecourseSimulation_to_json(self) ==
    LET val == Simulation_to_json(self)
    IN Dict([k \in DOMAIN val.d \cup TimeKeys |->
              CASE k = "startTime" -> self.start_time
                [] k = "outputStartTime" -> self.output_start_time
                [] k = "endTime" -> self.end_time
                [] k = "numTimePoints" -> self.num_time_points
                [] OTHER -> val.d[k]])

\* the else branch of Simulation.from_json: cls(...) for a subclass c
Simulation_construct_from_json(c, val) ==
    Simulation(c,
        Get(val, "id", None),
        Get(val, "name", None),
        FromJsonOrNone(val, "image", "RemoteFile_from_json"),
        Get(val, "description", None),
        Get(val, "tags", PyList(<<>>)),
        PyList(MapItems(Get(val, "identifiers", PyList(<<>>)), "Identifier_from_json")),
        PyList(MapItems(Get(val, "references", PyList(<<>>)), "JournalReference_from_json")),
        PyList(MapItems(Get(val, "authors", PyList(<<>>)), "Person_from_json")),
        FromJsonOrNone(val, "license", "License_call"),
        FromJsonOrNone(val, "format", "Format_from_json"),
        FromJsonOrNone(val, "model", "Model_from_json"),
        PyList(MapItems(Get(val, "modelParameterChanges", PyList(<<>>)),
                        "ModelParameterChange_from_json")),
        FromJsonOrNone(val, "algorithm", "Algorithm_from_json"),
        PyList(MapItems(Get(val, "algorithmParameterChanges", PyList(<<>>)),
                        "AlgorithmParameterChange_from_json")))

\* variant: a missing startTime is read as 0
TimecourseSimulation_from_json_ZeroStart(val) ==
    WithTimes(Simulation_construct_from_json("TimecourseSimulation", val),
              Get(val, "startTime", Num(0)),
              Get(val, "outputStartTime", None),
              Get(val, "endTime", None),
              Get(val, "numTimePoints", None))

\* TimecourseSimulation.__init__ leaves the four time fields None when they are
\* not given; TimecourseSimulation.from_json then assigns them
TimecourseSimulation_from_json(val) ==
    WithTimes(Simulation_construct_from_json("TimecourseSimulation", val),
              Get(val, "startTime", None),
              Get(val, "outputStartTime", None),
              Get(val, "endTime", None),
              Get(val, "numTimePoints", None))

SteadyStateSimulation_from_json(val) ==
    Simulation_construct_from_json("SteadyStateSimulation", val)

\* variant: a key counts only when its value is set
Simulation_subcls_Truthy(val) ==
    IF Truthy(Get(val, "startTime", None)) \/ Truthy(Get(val, "endTime", None))
       \/ Truthy(Get(val, "numTimePoints", None))
    THEN "TimecourseSimulation"
    ELSE "SteadyStateSimulation"

\* the subclass Simulation.from_json picks (lines 163-166)
Simulation_subcls(val) ==
    IF "startTime" \in DOMAIN val.d \/ "endTime" \in DOMAIN val.d
       \/ "numTimePoints" \in DOMAIN val.d
    THEN "TimecourseSimulation"
    ELSE "SteadyStateSimulation"

\* c.from_json(val) for c one of the three simulation classes
Simulation_from_json(c, val) ==
    LET subcls == IF c = "Simulation" THEN Simulation_subcls(val) ELSE c
    IN IF subcls = "TimecourseSimulation" THEN TimecourseSimulation_from_json(val)
       ELSE SteadyStateSimulation_from_json(val)

(***************************************************************************)
(* Simulator (simulator/data_model.py)                                     *)
(***************************************************************************)
\* PrimaryResourceMetadata of the package's data_model module: the name of the
\* resource and its owner, image and parent, which Simulator exports as
\* relationships
PrimaryResourceMetadata(name, owner, image, parent) ==
    [cls |-> "PrimaryResourceMetadata", name |-> name, owner |-> owner,
     image |-> image, parent |-> parent]

PrimaryResourceMetadata_to_json(self) == Dict([name |-> self.name])

PrimaryResourceMetadata_from_json(val) ==
    PrimaryResourceMetadata(Get(val, "name", None), None, None, None)

\* the TYPE attribute of a resource class
TYPE(c) ==
    CASE c = "Simulator" -> Str("simulator")
      [] c = "User" -> Str("user")
      [] c = "RemoteFile" -> Str("file")

Simulator(id, version, url, format, docker_hub_image_id, algorithms, metadata) ==
    [cls |-> "Simulator", id |-> id, version |-> version, url |-> url,
     format |-> format, docker_hub_image_id |-> docker_hub_image_id,
     algorithms |-> OrEmptyList(algorithms),
     metadata |-> IF Truthy(metadata) THEN metadata
                  ELSE PrimaryResourceMetadata(None, None, None, None)]

\* the attributes class Algorithm defines (lines 287-375): it has no sort_key
Algorithm_attributes == {"__init__", "__eq__", "to_json", "from_json"}

\* Algorithm.sort_key, as Simulator.__eq__ evaluates it
Algorithm_sort_key_lookup ==
    IF "sort_key" \in Algorithm_attributes THEN "True" ELSE "AttributeError"

Simulator_eq(self, o) ==
    IF o.cls # self.cls THEN "False"
    ELSE AndChain(<<
        PyEq(self.id, o.id),
        PyEq(self.version, o.version),
        PyEq(self.url, o.url),
        PyEq(self.format, o.format),
        PyEq(self.docker_hub_image_id, o.docker_hub_image_id),
        Algorithm_sort_key_lookup,
        SortedByEq(self.algorithms, o.algorithms, "Identity"),
        PyEq(self.metadata, o.metadata) >>)

\* {'data': {'type': x.TYPE, 'id': x.id}} if x else None
Relationship(x) ==
    IF Truthy(x) THEN Dict([data |-> Dict([type |-> TYPE(x.cls), id |-> x.id])])
    ELSE None

Simulator_to_json(self) ==
    Dict([data |-> Dict([
        type |-> TYPE("Simulator"),
        id |-> self.id,
        attributes |-> Dict([
            version |-> self.version,
            url |-> self.url,
            format |-> ToJsonOrNone(self.format, "Aux_to_json"),
            dockerHubImageId |-> self.docker_hub_image_id,
            algorithms |-> PyList(MapItems(self.algorithms, "Algorithm_to_json")),
            metadata |-> ToJsonOrNone(self.metadata, "PrimaryResourceMetadata_to_json")]),
        relationships |-> Dict([
            owner |-> Relationship(self.metadata.owner),
            image |-> Relationship(self.metadata.image),
            parent |-> Relationship(self.metadata.parent)])])])

User_from_json(val) == Aux_from_json("User", val)

EmptyDict == Dict(<<>>)

RECURSIVE Simulator_from_json(_)
Simulator_from_json(val) ==
    LET data == Get(val, "data", EmptyDict)
        attrs == Get(data, "attributes", EmptyDict)
        rel == Get(data, "relationships", EmptyDict)
        o == Simulator(
                Get(data, "id", None),
                Get(attrs, "version", None),
                Get(attrs, "url", None),
                FromJsonOrNone(attrs, "format", "Format_from_json"),
                Get(attrs, "dockerHubImageId", None),
                PyList(MapItems(Get(attrs, "algorithms", PyList(<<>>)), "Algorithm_from_json")),
                FromJsonOrNone(attrs, "metadata", "PrimaryResourceMetadata_from_json"))
    IN IF Get(data, "type", None) # TYPE("Simulator") THEN Raise("ValueError")
       ELSE [o EXCEPT !.metadata =
                [@ EXCEPT
                   !.owner = IF Truthy(Get(rel, "owner", None))
                             THEN User_from_json(Get(rel, "owner", None)) ELSE @,
                   !.image = IF Truthy(Get(rel, "image", None))
                             THEN RemoteFile_from_json(Get(rel, "image", None)) ELSE @,
                   !.parent = IF Truthy(Get(rel, "parent", None))
                              THEN Simulator_from_json(Get(rel, "parent", None)) ELSE @]]

(***************************************************************************)
(* x == y                                                                  *)
(***************************************************************************)
\* the classes of this package that define __eq__; each returns False for an
\* object of another class, so a reflected comparison is False as well
RecordClasses ==
    {"Model", "Parameter", "Variable", "Simulation", "TimecourseSimulation",
     "SteadyStateSimulation", "Algorithm", "AlgorithmParameter", "ParameterChange",
     "Simulator"}

PyEq(x, y) ==
    CASE x.cls = "Model" -> Model_eq(x, y)
      [] x.cls = "Parameter" -> Parameter_eq(x, y)
      [] x.cls = "Variable" -> Variable_eq(x, y)
      [] x.cls \in {"Simulation", "SteadyStateSimulation"} -> Simulation_eq(x, y)
      [] x.cls = "TimecourseSimulation" -> TimecourseSimulation_eq(x, y)
      [] x.cls = "Algorithm" -> Algorithm_eq(x, y)
      [] x.cls = "AlgorithmParameter" -> AlgorithmParameter_eq(x, y)
      [] x.cls = "ParameterChange" -> ParameterChange_eq(x, y)
      [] x.cls = "Simulator" -> Simulator_eq(x, y)
      [] x.cls \notin RecordClasses /\ y.cls \in RecordClasses -> "False"
      [] x.cls \in {"list", "tuple"} /\ y.cls = x.cls -> ListEq(x.items, y.items)
      [] OTHER -> Bool(x = y)

\* the functions passed as sort keys and applied to list elements and fields
Call(f, x) ==
    CASE f = "AlgorithmParameterChange_from_json" -> AlgorithmParameterChange_from_json(x)
      [] f = "AlgorithmParameter_from_json" -> AlgorithmParameter_from_json(x)
      [] f = "AlgorithmParameter_sort_key" -> AlgorithmParameter_sort_key(x)
      [] f = "AlgorithmParameter_to_json" -> AlgorithmParameter_to_json(x)
      [] f = "Algorithm_from_json" -> Algorithm_from_json(x)
      [] f = "Algorithm_to_json" -> Algorithm_to_json(x)
      [] f = "AnyParameter_to_json" -> AnyParameter_to_json(x)
      [] f = "Aux_sort_key" -> Aux_sort_key(x)
      [] f = "Aux_to_json" -> Aux_to_json(x)
      [] f = "Format_from_json" -> Format_from_json(x)
      [] f = "Identifier_from_json" -> Identifier_from_json(x)
      [] f = "Identity" -> Identity(x)
      [] f = "JournalReference_from_json" -> JournalReference_from_json(x)
      [] f = "License_call" -> License_call(x)
      [] f = "ModelParameterChange_from_json" -> ModelParameterChange_from_json(x)
      [] f = "Model_from_json" -> Model_from_json(x)
      [] f = "Model_to_json" -> Model_to_json(x)
      [] f = "OntologyTerm_from_json" -> OntologyTerm_from_json(x)
      [] f = "ParameterChange_sort_key" -> ParameterChange_sort_key(x)
      [] f = "ParameterChange_to_json" -> ParameterChange_to_json(x)
      [] f = "Parameter_from_json" -> Parameter_from_json(x)
      [] f = "Parameter_sort_key" -> Parameter_sort_key(x)
      [] f = "Parameter_to_json" -> Parameter_to_json(x)
      [] f = "Person_from_json" -> Person_from_json(x)
      [] f = "PrimaryResourceMetadata_from_json" -> PrimaryResourceMetadata_from_json(x)
      [] f = "PrimaryResourceMetadata_to_json" -> PrimaryResourceMetadata_to_json(x)
      [] f = "RemoteFile_from_json" -> RemoteFile_from_json(x)
      [] f = "Taxon_from_json" -> Taxon_from_json(x)
      [] f = "Type_call" -> Type_call(x)
      [] f = "Variable_from_json" -> Variable_from_json(x)
      [] f = "Variable_sort_key" -> Variable_sort_key(x)
      [] f = "Variable_to_json" -> Variable_to_json(x)

(***************************************************************************)
(* Method dispatch                                                         *)
(***************************************************************************)
\* self.to_json()
To_json(self) ==
    CASE self.cls = "Model" -> Model_to_json(self)
      [] self.cls = "Parameter" -> Parameter_to_json(self)
      [] self.cls = "Variable" -> Variable_to_json(self)
      [] self.cls \in {"Simulation", "SteadyStateSimulation"} -> Simulation_to_json(self)
      [] self.cls = "TimecourseSimulation" -> TimecourseSimulation_to_json(self)
      [] self.cls = "Algorithm" -> Algorithm_to_json(self)
      [] self.cls = "AlgorithmParameter" -> AlgorithmParameter_to_json(self)
      [] self.cls = "Simulator" -> Simulator_to_json(self)

\* c.from_json(val)
From_json(c, val) ==
    CASE c = "Model" -> Model_from_json(val)
      [] c = "Parameter" -> Parameter_from_json(val)
      [] c = "Variable" -> Variable_from_json(val)
      [] c \in {"Simulation", "TimecourseSimulation", "SteadyStateSimulation"} ->
            Simulation_from_json(c, val)
      [] c = "Algorithm" -> Algorithm_from_json(val)
      [] c = "AlgorithmParameter" -> AlgorithmParameter_from_json(val)
      [] c = "Simulator" -> Simulator_from_json(val)

(***************************************************************************)
(* Instances of the data model                                             *)
(***************************************************************************)
\* longest list of parameters, variables, parameter changes or algorithms
MaxLen == 2

\* the sequences of length at most n over S
SeqsUpTo(S, n) == UNION {[1..k -> S] : k \in 0..n}

Lists(S) == {PyList(q) : q \in SeqsUpTo(S, MaxLen)}

NoList == PyList(<<>>)

File1 == [cls |-> "RemoteFile", id |-> Str("a"), name |-> Str("m1"), type |-> Str("t1")]

Format1 == [cls |-> "Format", id |-> Str("a"), name |-> Str("b"), version |-> Str("c")]

Framework1 == [cls |-> "OntologyTerm", ontology |-> Str("a"), id |-> Str("b")]

Taxon1 == [cls |-> "Taxon", id |-> Num(7787), name |-> Str("t1")]

Taxon2 == [cls |-> "Taxon", id |-> Num(8355), name |-> Str("t2")]

Identifier1 == [cls |-> "Identifier", namespace |-> Str("a"), id |-> Str("m1")]

Identifier2 == [cls |-> "Identifier", namespace |-> Str("b"), id |-> Str("m2")]

Ref1 == [cls |-> "JournalReference", title |-> Str("a"), year |-> Num(2020)]

Person1 == [cls |-> "Person", last_name |-> Str("a"), first_name |-> Str("b")]

Person2 == [cls |-> "Person", last_name |-> Str("a"), first_name |-> Str("c")]

User1 == [cls |-> "User", id |-> Str("a")]

cc0 == Enum("License", Str("CC0"))

float == Enum("Type", Str("float"))

\* Parameter(id=..., value=...), the other fields left out
PlainParameter(id, value) ==
    Parameter(None, None, id, None, None, None, None, value, None, None)

RichParameter ==
    Parameter(Str("t1"), Str("a"), Str("p1"), Str("b"), Str("c"),
              PyList(<<Identifier2, Identifier1>>), float, Num(3),
              PyList(<<Num(0), Num(30)>>), Str("m1"))

ParamIds == {None, Str("p1"), Str("p2")}

Parameters ==
    {PlainParameter(id, value) : id \in ParamIds, value \in {Num(1), Num(2)}}
    \cup {RichParameter}

PlainVariable(id, name) == Variable(None, None, id, name, None, None, None, None)

RichVariable ==
    Variable(Str("t1"), Str("a"), Str("p1"), Str("b"), Str("c"),
             PyList(<<Identifier1>>), float, Str("m1"))

Variables ==
    {PlainVariable(id, name) : id \in {None, Str("p1")}, name \in {None, Str("a")}}
    \cup {RichVariable}

\* Model(id=..., taxon=..., parameters=..., variables=...)
PlainModel(id, taxon, parameters, variables) ==
    Model(id, None, None, None, None, None, None, taxon, None, None, None, None,
          None, parameters, variables)

RichModel(id, taxon) ==
    Model(id, Str("a"), File1, File1, Str("b"), Format1, Framework1, taxon,
          PyList(<<Str("b"), Str("a")>>), PyList(<<Identifier1, Identifier2>>),
          PyList(<<Ref1>>), PyList(<<Person2, Person1>>), cc0,
          PyList(<<RichParameter>>), PyList(<<RichVariable>>))

ModelIds == {None, Str("m1")}

Taxa == {None, Taxon1}

Models ==
    {PlainModel(id, taxon, ps, NoList) :
        id \in ModelIds, taxon \in Taxa, ps \in Lists(Parameters)}
    \cup {PlainModel(id, taxon, NoList, vs) :
        id \in ModelIds, taxon \in Taxa, vs \in Lists(Variables)}
    \cup {RichModel(id, taxon) : id \in ModelIds, taxon \in Taxa}

\* AlgorithmParameter(id=..., type=..., recommended_range=...)
PlainAlgorithmParameter(id, type, recommended_range) ==
    AlgorithmParameter(id, None, type, Num(1), recommended_range, None)

RichAlgorithmParameter ==
    AlgorithmParameter(Str("p1"), Str("a"), float, Num(2),
                       PyList(<<Num(0), Num(10)>>), Str("00001"))

AlgorithmParameters ==
    {PlainAlgorithmParameter(id, type, rr) :
        id \in ParamIds, type \in {None, float},
        rr \in {None, PyList(<<Num(0), Num(10)>>)}}
    \cup {RichAlgorithmParameter}

Algorithms ==
    {Algorithm(Str("a"), None, None, None, None, None, ps) :
        ps \in Lists(AlgorithmParameters)}
    \cup {Algorithm(id, Str("b"), Str("00001"), PyList(<<Str("00002"), Str("00001")>>),
                    PyList(<<Framework1>>), PyList(<<Format1>>),
                    PyList(<<RichAlgorithmParameter>>)) : id \in {None, Str("a")}}

Algorithm1 == Algorithm(Str("a"), Str("b"), Str("00001"), None, None, None,
                        PyList(<<RichAlgorithmParameter>>))

Algorithm2 == Algorithm(Str("b"), None, None, None, None, None, None)

ModelParameterChanges ==
    {ParameterChange(p, Num(5)) : p \in {None, PlainParameter(Str("p1"), Num(1)),
                                         PlainParameter(Str("p2"), Num(1))}}

AlgorithmParameterChanges ==
    {ParameterChange(p, Num(5)) : p \in {PlainAlgorithmParameter(Str("p1"), float, None),
                                         RichAlgorithmParameter}}

SimulationClasses == {"Simulation", "TimecourseSimulation", "SteadyStateSimulation"}

\* an instance of class c; a TimecourseSimulation gets the four time fields
NewSimulation(c, id, model, mpc, algorithm, apc, times) ==
    LET base == Simulation(c, id, Str("a"), File1, None, PyList(<<Str("a")>>), None,
                           PyList(<<Ref1>>), PyList(<<Person1, Person2>>), cc0,
                           Format1, model, mpc, algorithm, apc)
    IN IF c = "TimecourseSimulation"
       THEN WithTimes(base, times[1], times[2], times[3], times[4])
       ELSE base

TimeSettings == {<<None, None, None, None>>, <<Num(0), None, Num(10), Num(100)>>}

SimulationModels ==
    {None, PlainModel(None, None, None, None), PlainModel(Str("m1"), None, None, None)}

Simulations ==
    {NewSimulation(c, Str("m1"), m, mpc, None, None, t) :
        c \in SimulationClasses, m \in SimulationModels,
        mpc \in Lists(ModelParameterChanges), t \in TimeSettings}
    \cup {NewSimulation(c, None, None, None, a, apc, t) :
        c \in SimulationClasses, a \in {None, Algorithm1},
        apc \in Lists(AlgorithmParameterChanges), t \in TimeSettings}

Metadatas ==
    {None,
     PrimaryResourceMetadata(Str("a"), None, None, None),
     PrimaryResourceMetadata(Str("a"), User1, None, None),
     PrimaryResourceMetadata(Str("a"), None, File1, None),
     PrimaryResourceMetadata(Str("a"), User1, None,
         Simulator(Str("b"), None, None, None, None, None, None))}

Simulators ==
    {Simulator(id, Str("a"), Str("b"), f, Str("c"), algs, md) :
        id \in {None, Str("a")}, f \in {None, Format1},
        algs \in Lists({Algorithm1, Algorithm2}), md \in Metadatas}

(***************************************************************************)
(* Round trip: x.to_json(), then Cls.from_json of it, then == x            *)
(***************************************************************************)
\* the class whose from_json is called, and the instances it is called for
RoundTripClasses == {"Model", "Simulation", "Simulator", "Algorithm", "AlgorithmParameter"}

Instances(c) ==
    CASE c = "Model" -> Models
      [] c = "Simulation" -> Simulations
      [] c = "Simulator" -> Simulators
      [] c = "Algorithm" -> Algorithms
      [] c = "AlgorithmParameter" -> AlgorithmParameters

Init ==
    /\ pc = "start"
    /\ cls \in RoundTripClasses
    /\ obj \in Instances(cls)
    /\ other = None
    /\ json = None
    /\ ret = ""

\* json = obj.to_json()
Export ==
    /\ pc = "start"
    /\ json' = To_json(obj)
    /\ pc' = "exported"
    /\ UNCHANGED <<cls, obj, other, ret>>

\* other = cls.from_json(json)
Import ==
    /\ pc = "exported"
    /\ other' = From_json(cls, json)
    /\ pc' = "imported"
    /\ UNCHANGED <<cls, obj, json, ret>>

\* ret = (other == obj)
Compare ==
    /\ pc = "imported"
    /\ ret' = PyEq(other, obj)
    /\ pc' = "compared"
    /\ UNCHANGED <<cls, obj, other, json>>

Next == Export \/ Import \/ Compare

Spec == Init /\ [][Next]_vars

(***************************************************************************)
(* Round-trip claims                                                       *)
(***************************************************************************)
RoundTripDone(c) == pc = "compared" /\ cls = c

\* C1: for every Model m, Model.from_json(m.to_json()) == m is True
C1_ModelRoundTrip == RoundTripDone("Model") => ret = "True"

\* C2: for every Simulation s (base, timecourse or steady-state, with any
\* parameter changes), Simulation.from_json(s.to_json()) == s is True
C2_SimulationRoundTrip == RoundTripDone("Simulation") => ret = "True"

\* C3: for every Simulator s, Simulator.from_json(s.to_json()) == s is True
\* and the comparison does not raise
C3_SimulatorRoundTrip == RoundTripDone("Simulator") => ret = "True"

\* the sort keys of the algorithm's parameters can be ordered pairwise
OrderableParameters(algorithm) ==
    ~SortRaises(MapItems(algorithm.parameters, "AlgorithmParameter_sort_key"))

\* C4 as stated: the round trip of every Algorithm, whatever its list of
\* parameters, and of every AlgorithmParameter compares equal
C4_AnyParameterList ==
    (RoundTripDone("Algorithm") \/ RoundTripDone("AlgorithmParameter"))
        => ret = "True"

\* C4: the round trip of every AlgorithmParameter compares equal, and the
\* round trip of an Algorithm compares equal exactly when the sort keys of its
\* parameters are pairwise orderable; otherwise the comparison raises TypeError
C4_AlgorithmRoundTrip ==
    /\ RoundTripDone("AlgorithmParameter") => ret = "True"
    /\ RoundTripDone("Algorithm") =>
           ret = IF OrderableParameters(obj) THEN "True" ELSE "TypeError"

\* an algorithm with a typed and an untyped parameter, one of them with a
\* recommended range, has made the round trip and compares equal
C4_Witness ==
    /\ RoundTripDone("Algorithm")
    /\ ret = "True"
    /\ Len(obj.parameters.items) = 2
    /\ \E i, j \in 1..2 :
           /\ obj.parameters.items[i].type = None
           /\ obj.parameters.items[j].type # None
    /\ \E i, j \in 1..2 :
           /\ obj.parameters.items[i].recommended_range.items = <<>>
           /\ obj.parameters.items[j].recommended_range.items # <<>>

(***************************************************************************)
(* from_json of a JSON object with keys missing                            *)
(***************************************************************************)
\* most keys present in, or most keys missing from, the JSON objects parsed
MaxKeys == 2

\* the subsets of S of at most n elements
RECURSIVE SubsetsUpTo(_, _)
SubsetsUpTo(S, n) ==
    IF n = 0 THEN {{}}
    ELSE LET P == SubsetsUpTo(S, n - 1)
         IN P \cup {T \cup {x} : T \in P, x \in S}

\* the key sets that hold at most MaxKeys keys or lack at most MaxKeys keys
KeySubsets(S) ==
    SubsetsUpTo(S, MaxKeys) \cup {S \ T : T \in SubsetsUpTo(S, MaxKeys)}

\* the JSON object val with only the keys of K
Restrict(val, K) == Dict([k \in K |-> val.d[k]])

FromJsonClasses ==
    {"Model", "Parameter", "Variable", "Simulation", "TimecourseSimulation",
     "SteadyStateSimulation", "Algorithm", "AlgorithmParameter"}

RichAlgorithm ==
    Algorithm(Str("a"), Str("b"), Str("00001"), PyList(<<Str("00002")>>),
              PyList(<<Framework1>>), PyList(<<Format1>>),
              PyList(<<RichAlgorithmParameter>>))

RichSimulation(times) ==
    NewSimulation("TimecourseSimulation", Str("m1"), RichModel(Str("m1"), Taxon1),
                  PyList(<<ParameterChange(RichParameter, Num(5))>>), RichAlgorithm,
                  PyList(<<ParameterChange(RichAlgorithmParameter, Num(5))>>), times)

\* complete JSON objects of class c: the exports of instances with every field
\* set; the time settings of a simulation are numbers or all null
FullJson(c) ==
    CASE c = "Model" -> {Model_to_json(RichModel(Str("m1"), Taxon1))}
      [] c = "Parameter" -> {Parameter_to_json(RichParameter)}
      [] c = "Variable" -> {Variable_to_json(RichVariable)}
      [] c \in SimulationClasses ->
            {TimecourseSimulation_to_json(RichSimulation(t)) :
                t \in {<<None, None, None, None>>,
                       <<Num(0), Num(1), Num(10), Num(100)>>}}
      [] c = "Algorithm" -> {Algorithm_to_json(RichAlgorithm)}
      [] c = "AlgorithmParameter" -> {AlgorithmParameter_to_json(RichAlgorithmParameter)}

JsonInputs(c) ==
    UNION {{Restrict(full, K) : K \in KeySubsets(DOMAIN full.d)} : full \in FullJson(c)}

InitFromJson ==
    /\ pc = "json"
    /\ cls \in FromJsonClasses
    /\ json \in JsonInputs(cls)
    /\ obj = None
    /\ other = None
    /\ ret = ""

\* obj = cls.from_json(json)
CallFromJson ==
    /\ pc = "json"
    /\ obj' = From_json(cls, json)
    /\ pc' = "parsed"
    /\ UNCHANGED <<cls, other, json, ret>>

NextFromJson == CallFromJson

SpecFromJson == InitFromJson /\ [][NextFromJson]_vars

(***************************************************************************)
(* from_json claims                                                        *)
(***************************************************************************)
Parsed(c) == pc = "parsed" /\ cls = c

SubtypeKeys == {"startTime", "endTime", "numTimePoints"}

\* C5: Simulation.from_json(val) returns a TimecourseSimulation when val has
\* at least one of the keys startTime, endTime, numTimePoints, whatever their
\* values, and a SteadyStateSimulation when it has none of them; it never
\* returns an instance of the base class
C5_SubtypeFromKeys ==
    Parsed("Simulation") =>
        /\ obj.cls # "Simulation"
        /\ (SubtypeKeys \cap DOMAIN json.d # {}) => obj.cls = "TimecourseSimulation"
        /\ (SubtypeKeys \cap DOMAIN json.d = {}) => obj.cls = "SteadyStateSimulation"

\* a JSON object whose only subtype key is endTime, with the value null, has
\* been parsed by Simulation.from_json into a TimecourseSimulation
C5_Witness ==
    /\ Parsed("Simulation")
    /\ SubtypeKeys \cap DOMAIN json.d = {"endTime"}
    /\ json.d["endTime"] = None
    /\ obj.cls = "TimecourseSimulation"

\* the attribute that from_json fills from a key
KeyAttr(k) ==
    CASE k = "recommendedRange" -> "recommended_range"
      [] k = "kisaoId" -> "kisao_id"
      [] k = "synonymousKisaoIds" -> "synonymous_kisao_ids"
      [] k = "modelingFrameworks" -> "modeling_frameworks"
      [] k = "modelFormats" -> "model_formats"
      [] k = "modelParameterChanges" -> "model_parameter_changes"
      [] k = "algorithmParameterChanges" -> "algorithm_parameter_changes"
      [] k = "startTime" -> "start_time"
      [] k = "outputStartTime" -> "output_start_time"
      [] k = "endTime" -> "end_time"
      [] k = "numTimePoints" -> "num_time_points"
      [] OTHER -> k

\* the keys of the list fields: tags, identifiers, refs/references, authors,
\* parameters, variables, parameter changes, synonymous ids, frameworks, formats
ListKeys ==
    {"tags", "identifiers", "refs", "references", "authors", "parameters",
     "variables", "modelParameterChanges", "algorithmParameterChanges",
     "synonymousKisaoIds", "modelingFrameworks", "modelFormats"}

\* the keys of a complete JSON object of class c that json lacks
MissingKeys(c) == UNION {DOMAIN full.d : full \in FullJson(c)} \ DOMAIN json.d

\* the class of the instance that c.from_json returns
ResultClasses(c) ==
    IF c = "Simulation" THEN {"TimecourseSimulation", "SteadyStateSimulation"} ELSE {c}

\* C8 as stated: from_json succeeds whatever keys are missing, each missing
\* list field (tags, identifiers, refs/references, authors, parameters,
\* variables, parameter changes, synonymous ids, frameworks, formats) is an
\* empty list and every other missing field is None
C8_ScalarOrList ==
    pc = "parsed" =>
        /\ obj.cls \in ResultClasses(cls)
        /\ \A k \in MissingKeys(cls) :
               KeyAttr(k) \in DOMAIN obj =>
                   obj[KeyAttr(k)] = IF k \in ListKeys THEN PyList(<<>>) ELSE None

\* C8: from_json succeeds whatever keys are missing, each missing list field
\* (as above) is an empty list, a missing recommended range is an empty list
\* in an AlgorithmParameter and None in a Parameter, and every other missing
\* field is None
C8_MissingKeys ==
    pc = "parsed" =>
        /\ obj.cls \in ResultClasses(cls)
        /\ \A k \in MissingKeys(cls) :
               KeyAttr(k) \in DOMAIN obj =>
                   obj[KeyAttr(k)] =
                       IF k \in ListKeys THEN PyList(<<>>)
                       ELSE IF k = "recommendedRange" /\ obj.cls = "AlgorithmParameter"
                            THEN PyList(<<>>)
                       ELSE None

\* the empty JSON object has been parsed into a timecourse simulation whose
\* scalar fields are None and whose list fields are empty
C8_Witness ==
    /\ Parsed("TimecourseSimulation")
    /\ DOMAIN json.d = {}
    /\ obj.cls = "TimecourseSimulation"
    /\ obj.start_time = None
    /\ obj.model = None
    /\ obj.tags = PyList(<<>>)
    /\ obj.model_parameter_changes = PyList(<<>>)

(***************************************************************************)
(* Model equality: a == b, and again after b's lists are reordered         *)
(***************************************************************************)
EqParameters ==
    {PlainParameter(Str("p1"), Num(1)), PlainParameter(Str("p1"), Num(2)),
     PlainParameter(Str("p2"), Num(1)), PlainParameter(None, Num(1))}

EqVariables ==
    {PlainVariable(Str("p1"), Str("a")), PlainVariable(Str("p1"), Str("b")),
     PlainVariable(Str("p2"), Str("a"))}

\* the lists are varied in models without id and taxon, the id and the taxon
\* in models without lists and in models with every field set
EqModels ==
    {PlainModel(None, None, ps, NoList) : ps \in Lists(EqParameters)}
    \cup {PlainModel(None, None, NoList, vs) : vs \in Lists(EqVariables)}
    \cup {PlainModel(id, taxon, NoList, NoList) : id \in ModelIds, taxon \in Taxa}
    \cup {RichModel(id, taxon) : id \in ModelIds, taxon \in Taxa}

\* a itself and the models that differ from a in one field
Variants(a) ==
    {a}
    \cup {[a EXCEPT !.id = v] : v \in ModelIds \cup {Str("m2")}}
    \cup {[a EXCEPT !.taxon = v] : v \in Taxa \cup {Taxon2}}
    \cup {[a EXCEPT !.name = v] : v \in {None, Str("b")}}
    \cup {[a EXCEPT !.license = v] : v \in {None, cc0}}
    \cup {[a EXCEPT !.tags = v] : v \in {PyList(<<>>), PyList(<<Str("a"), Str("b")>>)}}
    \cup {[a EXCEPT !.parameters = v] : v \in Lists(EqParameters)}
    \cup {[a EXCEPT !.variables = v] : v \in Lists(EqVariables)}

\* the orders in which the elements of the sequence s can be listed
Orders(s) ==
    {[i \in 1..Len(s) |-> s[f[i]]] :
        f \in {g \in [1..Len(s) -> 1..Len(s)] :
                 \A i, j \in 1..Len(s) : i # j => g[i] # g[j]}}

InitEq ==
    /\ pc = "models"
    /\ cls = "Model"
    /\ obj \in EqModels
    /\ other \in Variants(obj)
    /\ json = None
    /\ ret = ""

\* ret = (obj == other)
CompareModels ==
    /\ pc = "models"
    /\ ret' = PyEq(obj, other)
    /\ pc' = "compared"
    /\ UNCHANGED <<cls, obj, other, json>>

\* other.parameters is put in another order; ret = (obj == other)
PermuteParameters ==
    /\ pc = "compared"
    /\ \E q \in Orders(other.parameters.items) :
           other' = [other EXCEPT !.parameters = PyList(q)]
    /\ ret' = PyEq(obj, other')
    /\ pc' = "permuted"
    /\ UNCHANGED <<cls, obj, json>>

\* other.variables is put in another order; ret = (obj == other)
PermuteVariables ==
    /\ pc = "compared"
    /\ \E q \in Orders(other.variables.items) :
           other' = [other EXCEPT !.variables = PyList(q)]
    /\ ret' = PyEq(obj, other')
    /\ pc' = "permuted"
    /\ UNCHANGED <<cls, obj, json>>

NextEq == CompareModels \/ PermuteParameters \/ PermuteVariables

SpecEq == InitEq /\ [][NextEq]_vars

(***************************************************************************)
(* Model equality claims                                                   *)
(***************************************************************************)
\* a and b have pairwise equal scalar fields, and lists that are equal after
\* sorting
FieldWiseEqual(a, b) ==
    /\ \A f \in {"id", "name", "file", "image", "description", "format",
                 "framework", "taxon", "license"} : PyEq(a[f], b[f]) = "True"
    /\ SortedByEq(a.tags, b.tags, "Identity") = "True"
    /\ \A f \in {"identifiers", "refs", "authors"} :
           SortedByEq(a[f], b[f], "Aux_sort_key") = "True"
    /\ SortedByEq(a.parameters, b.parameters, "Parameter_sort_key") = "True"
    /\ SortedByEq(a.variables, b.variables, "Variable_sort_key") = "True"

\* C6: a == b is True exactly when the scalar fields of the Models a and b are
\* pairwise equal and their lists are equal after sorting; so two Models with
\* identical fields are equal and two that differ only in taxon are unequal
C6_FieldWiseEquality ==
    pc = "compared" /\ cls = "Model" /\ other.cls = "Model" =>
        (ret = "True" <=> FieldWiseEqual(obj, other))

\* C7 as stated: putting b.parameters or b.variables in another order never
\* changes the result of a == b, whatever ids the elements have
C7_AnyOrder == [][(PermuteParameters \/ PermuteVariables) => ret' = ret]_vars

\* elements of the list that have the same id are equal in every field
SameIdSameElement(lst) ==
    \A i, j \in 1..Len(lst.items) :
        lst.items[i].id = lst.items[j].id => lst.items[i] = lst.items[j]

\* C7: putting b.parameters (or b.variables) in another order does not change
\* the result of a == b, an exception raised counting as the result, when no
\* two elements of the reordered list share an id and differ in another field
C7_OrderOfDistinctIds ==
    [][/\ (PermuteParameters /\ SameIdSameElement(other.parameters) => ret' = ret)
       /\ (PermuteVariables /\ SameIdSameElement(other.variables) => ret' = ret)]_vars

\* two parameters with distinct ids were swapped in b, and a == b is True as
\* it was before
C7_Witness ==
    /\ pc = "permuted"
    /\ ret = "True"
    /\ Len(obj.parameters.items) = 2
    /\ obj.parameters.items[1].id # obj.parameters.items[2].id
    /\ other.parameters.items = <<obj.parameters.items[2], obj.parameters.items[1]>>

(***************************************************************************)
(* Binary floating point.  Python's float is the IEEE 754 double: 53       *)
(* significant bits, gradual underflow, round to nearest with ties to      *)
(* even, overflow to infinity.  The same format is modelled with Precision *)
(* significant bits: a float is an integer number of units, the unit being *)
(* the smallest subnormal 2^-FractionBits; the finite floats are the       *)
(* numbers m * 2^e with m < 2^Precision and 0 <= e <= MaxExponent.  -0.0   *)
(* is 0: it equals 0.0 and is not less than 0.0.  NaN is not modelled.     *)
(***************************************************************************)
\* significant bits of a float
Precision == 4

\* largest exponent of a finite float, counted from the smallest subnormal
MaxExponent == 10

\* 1.0 is 2^FractionBits units; 0.1 is a normal number
FractionBits == Precision + 5

Pow2(k) == 2 ^ k

MaxFloat == (Pow2(Precision) - 1) * Pow2(MaxExponent)

\* float('inf'): greater than every finite float
Inf == Pow2(Precision) * Pow2(MaxExponent)

FiniteFloats ==
    {s * m * Pow2(e) : s \in {-1, 1}, m \in 0..(Pow2(Precision) - 1), e \in 0..MaxExponent}

Floats == FiniteFloats \cup {Inf, -Inf}

Sign(a) == IF a < 0 THEN -1 ELSE 1

Abs(a) == IF a < 0 THEN -a ELSE a

\* the exponent of the float nearest to num / den units: the smallest e from
\* e0 on with num / den < 2^Precision * 2^e
RECURSIVE ExponentOf(_, _, _)
ExponentOf(num, den, e0) ==
    IF num < Pow2(Precision) * Pow2(e0) * den THEN e0
    ELSE ExponentOf(num, den, e0 + 1)

\* num / den rounded to the nearest integer, a tie to the even one
RoundHalfEven(num, den) ==
    LET f == num \div den
        r == num % den
    IN IF 2 * r < den THEN f
       ELSE IF 2 * r > den THEN f + 1
       ELSE IF f % 2 = 0 THEN f ELSE f + 1

\* the float nearest to the non-negative number num / den of units
RoundToFloat(num, den) ==
    LET e == ExponentOf(num, den, 0)
        x == RoundHalfEven(num, den * Pow2(e)) * Pow2(e)
    IN IF x > MaxFloat THEN Inf ELSE x

\* a * b of floats a and b, none of them zero when the other is infinite
FloatMul(a, b) ==
    IF Abs(a) = Inf \/ Abs(b) = Inf THEN Sign(a) * Sign(b) * Inf
    ELSE Sign(a) * Sign(b) * RoundToFloat(Abs(a) * Abs(b), Pow2(FractionBits))

\* a / b of floats a and b, b finite and not zero
FloatDiv(a, b) ==
    IF Abs(a) = Inf THEN Sign(a) * Sign(b) * Inf
    ELSE Sign(a) * Sign(b) * RoundToFloat(Abs(a) * Pow2(FractionBits), Abs(b))

\* the float of an integer literal such as 10.
FloatOf(i) == i * Pow2(FractionBits)

\* x ** -1
FloatInverse(x) == FloatDiv(FloatOf(1), x)

(***************************************************************************)
(* SbmlBiomodelReader._calc_recommended_param_range (biomodel/sbml.py)     *)
(***************************************************************************)
\* variant: the two bounds in the other order
calc_recommended_param_range_Swapped(value, zero_fold, non_zero_fold) ==
    IF value = 0 THEN <<zero_fold, FloatOf(0)>>
    ELSE <<FloatMul(value, non_zero_fold), FloatMul(value, FloatInverse(non_zero_fold))>>

calc_recommended_param_range(value, zero_fold, non_zero_fold) ==
    IF value = 0 THEN <<FloatOf(0), zero_fold>>
    ELSE <<FloatMul(value, FloatInverse(non_zero_fold)), FloatMul(value, non_zero_fold)>>

\* the default of zero_fold and of non_zero_fold
DefaultFold == FloatOf(10)

InitRange ==
    /\ pc = "value"
    /\ cls = "SbmlBiomodelReader"
    /\ obj \in Floats
    /\ other = None
    /\ json = None
    /\ ret = <<>>

\* ret = self._calc_recommended_param_range(obj)
CalcRange ==
    /\ pc = "value"
    /\ ret' = calc_recommended_param_range(obj, DefaultFold, DefaultFold)
    /\ pc' = "ranged"
    /\ UNCHANGED <<cls, obj, other, json>>

NextRange == CalcRange

SpecRange == InitRange /\ [][NextRange]_vars

(***************************************************************************)
(* Recommended-range claims                                                *)
(***************************************************************************)
\* C9: with the default fold factors the range is exactly [0.0, 10.0] for the
\* value zero and exactly [v / 10, v * 10] for every other value v
C9_ExactRange ==
    pc = "ranged" =>
        ret = IF obj = 0 THEN <<FloatOf(0), FloatOf(10)>>
              ELSE <<FloatDiv(obj, FloatOf(10)), FloatMul(obj, FloatOf(10))>>

Between(lo, x, hi) == (lo <= x /\ x <= hi) \/ (hi <= x /\ x <= lo)

\* C10 as stated: for every negative value both bounds are negative and the
\* first is greater than the second, for every positive value both bounds are
\* positive and the first is less than the second, and the value always lies
\* between the two bounds
C10_StrictSigns ==
    pc = "ranged" =>
        /\ obj < 0 => ret[1] < 0 /\ ret[2] < 0 /\ ret[1] > ret[2]
        /\ obj > 0 => ret[1] > 0 /\ ret[2] > 0 /\ ret[1] < ret[2]
        /\ Between(ret[1], obj, ret[2])

\* C10: for every negative value neither bound is positive, the second is
\* negative and the first is not less than the second; for every positive
\* value neither bound is negative, the second is positive and the first is
\* not greater than the second; the bounds differ when the value is finite;
\* the value always lies between the two bounds, bounds included
C10_SignPreserving ==
    pc = "ranged" =>
        /\ obj < 0 => ret[1] <= 0 /\ ret[2] < 0 /\ ret[1] >= ret[2]
        /\ obj > 0 => ret[1] >= 0 /\ ret[2] > 0 /\ ret[1] <= ret[2]
        /\ obj \in FiniteFloats => ret[1] # ret[2]
        /\ Between(ret[1], obj, ret[2])

\* the range of a negative value has been computed: both bounds are negative
\* and the first is the greater one
C10_Witness ==
    /\ pc = "ranged"
    /\ obj = -FloatOf(3)
    /\ ret[1] < 0
    /\ ret[2] < ret[1]
    /\ ret[2] < obj
    /\ obj < ret[1]

(***************************************************************************)
(* SbmlBiomodelReader (biomodel/sbml.py): what the reader reads.            *)
(*                                                                         *)
(* A libsbml model is a record of the values its getters return: getId()   *)
(* and getName() return "" when unset, every list is a sequence, the       *)
(* annotation is a tree of XML nodes or None.  Every element carries in    *)
(* its field derivedUnitDefinition the unit definition libsbml derives for *)
(* it, or None.  The Biomodel, BiomodelParameter and                       *)
(* BiomodelVariable the reader builds are the Model, Parameter and         *)
(* Variable records above.                                                 *)
(***************************************************************************)
\* raise exc(msg)
RaiseMsg(exc, msg) == [cls |-> "raise", exc |-> exc, msg |-> msg]

Raised(v) == v.cls = "raise"

\* s or None, for the string s a libsbml getter returns
OrNone(s) == IF s = "" THEN None ELSE Str(s)

\* a or b, for two strings
OrStr(a, b) == IF a = "" THEN b ELSE a

XmlName(prefix, name) == [prefix |-> prefix, name |-> name]

\* a libsbml.XMLNode: attrs is a sequence of [prefix, name, value]
XmlNode(prefix, name, attrs, children) ==
    [cls |-> "XMLNode", prefix |-> prefix, name |-> name, attrs |-> attrs,
     children |-> children]

\* the only child of node with that prefix and name, or None
get_xml_child_by_name(node, name) ==
    LET Matches(child) == child.prefix = name.prefix /\ child.name = name.name
        matching_children == SelectSeq(node.children, Matches)
    IN IF Len(matching_children) = 1 THEN matching_children[1] ELSE None

RECURSIVE get_xml_child_by_names(_, _)
get_xml_child_by_names(node, names) ==
    IF names = <<>> \/ ~Truthy(node) THEN node
    ELSE get_xml_child_by_names(get_xml_child_by_name(node, Head(names)), Tail(names))

\* the value of the first attribute with that prefix and name, or None
get_xml_attr_by_name(node, name) ==
    LET Matches(attr) == attr.prefix = name.prefix /\ attr.name = name.name
        matching == SelectSeq(node.attrs, Matches)
    IN IF matching = <<>> THEN None ELSE Str(matching[1].value)

\* A URL is the sequence of the pieces the pattern of line 155 tells apart:
\* <<scheme, "://identifiers", one character, "org/taxonomy/", characters...>>
Digits == <<"0", "1", "2", "3", "4", "5", "6", "7", "8", "9">>

DigitValue(c) == CHOOSE d \in 0..9 : Digits[d + 1] = c

\* the longest prefix of cs made of digits
RECURSIVE LeadingDigits(_)
LeadingDigits(cs) ==
    IF cs = <<>> \/ Head(cs) \notin Range(Digits) THEN <<>>
    ELSE <<Head(cs)>> \o LeadingDigits(Tail(cs))

\* int(ds) of a string of digits
RECURSIVE IntOf(_)
IntOf(ds) ==
    IF ds = <<>> THEN 0
    ELSE 10 * IntOf(SubSeq(ds, 1, Len(ds) - 1)) + DigitValue(ds[Len(ds)])

\* re.match(r'https?://identifiers.org/taxonomy/(\d+)', url): group 1, or <<>>
\* when the url does not match; the pattern is not anchored at the end and its
\* '.' matches any character
TaxonomyMatch(url) ==
    IF /\ Len(url) > 4
       /\ url[1] \in {"http", "https"}
       /\ url[2] = "://identifiers"
       /\ url[4] = "org/taxonomy/"
    THEN LeadingDigits(SubSeq(url, 5, Len(url)))
    ELSE <<>>

\* ete3.NCBITaxa().get_taxid_translator([taxon_id]): the names of the ids the
\* taxonomy database knows
NcbiTaxa == [taxon_id \in {9606} |-> "Homo sapiens"]

Taxon(id, name) == [cls |-> "Taxon", id |-> id, name |-> name]

RemoteFile(name, type, size) ==
    [cls |-> "RemoteFile", id |-> None, name |-> name, type |-> type, size |-> size]

\* Biomodel()
Biomodel == Model(None, None, None, None, None, None, None, None, None, None, None, None, None, None, None)

\* what a method leaves behind: the Biomodel as it is when the method returns
\* or raises, and the value returned or the exception raised
Outcome(model, result) == [model |-> model, ret |-> result]

\* os.path.basename, os.path.isfile, os.path.getsize and libsbml's
\* readSBMLFromFile(filename).getModel() read the file system fs, a function
\* from paths to [size, model]; model is None when the document has no model
read_from_file(fs, filename, model) ==
    IF filename \notin DOMAIN fs THEN
        Outcome(model, RaiseMsg("ValueError", "does not exist"))
    ELSE LET file == RemoteFile(Str(filename), Str("application/sbml+xml"), Num(fs[filename].size))
             model1 == [model EXCEPT !.file = file]
             model_sbml == fs[filename].model
         IN IF ~Truthy(model_sbml) THEN
                Outcome(model1, RaiseMsg("ValueError", "does not contain a valid model"))
            ELSE Outcome(model1, model_sbml)

IntStr(n) == Digits[n + 1]

\* 'L{}V{}'.format(level, version)
LevelVersion(level, version) == "L" \o IntStr(level) \o "V" \o IntStr(version)

\* int(version[1]) of a string 'L{}V{}'
LevelOf(s) == CHOOSE l \in 0..9 : \E v \in 0..9 : s = LevelVersion(l, v)

\* BiomodelFormat.sbml.value
BiomodelFormat_sbml == [cls |-> "Format", id |-> Str("SBML"), name |-> Str("SBML"), version |-> None]

read_format(model_sbml, model) ==
    LET format == [BiomodelFormat_sbml EXCEPT
                      !.version = Str(LevelVersion(model_sbml.level, model_sbml.version))]
    IN Outcome([model EXCEPT !.format = format], format)
\* BiomodelingFramework.<member>.value
BiomodelingFramework(member) == [cls |-> "OntologyTerm", ontology |-> Str("SBO"), id |-> Str(member)]

SupportedPackages == {"annot", "comp", "fbc", "groups", "layout", "multi", "qual", "render", "req"}

\* variant: only all three framework packages together are ambiguous
read_framework_AllThree(packages) ==
    IF Cardinality(packages \cap {"fbc", "multi", "qual"}) > 2 THEN
        RaiseMsg("BiomodelIoError", "Unable to determine modeling framework")
    ELSE IF "fbc" \in packages THEN BiomodelingFramework("flux_balance")
    ELSE IF "multi" \in packages THEN BiomodelingFramework("non_spatial_discrete")
    ELSE IF "qual" \in packages THEN BiomodelingFramework("logical")
    ELSE BiomodelingFramework("non_spatial_continuous")

\* lines 134-144
read_framework(packages) ==
    IF Cardinality(packages \cap {"fbc", "multi", "qual"}) > 1 THEN
        RaiseMsg("BiomodelIoError", "Unable to determine modeling framework")
    ELSE IF "fbc" \in packages THEN BiomodelingFramework("flux_balance")
    ELSE IF "multi" \in packages THEN BiomodelingFramework("non_spatial_discrete")
    ELSE IF "qual" \in packages THEN BiomodelingFramework("logical")
    ELSE BiomodelingFramework("non_spatial_continuous")

\* lines 146-164: the value model.taxon is left with, or the exception raised
read_taxon(desc_xml) ==
    LET taxon_xml == get_xml_child_by_names(desc_xml,
            <<XmlName("bqbiol", "hasTaxon"), XmlName("rdf", "Bag"), XmlName("rdf", "li")>>)
        taxon_url == get_xml_attr_by_name(taxon_xml, XmlName("rdf", "resource"))
        match == TaxonomyMatch(taxon_url.s)
        taxon_id == IntOf(match)
    IN IF ~Truthy(taxon_xml) THEN None
       \* re.match(pattern, None)
       ELSE IF taxon_url.cls # "str" THEN RaiseMsg("TypeError", "expected string or bytes-like object")
       ELSE IF match = <<>> THEN None
       ELSE IF taxon_id \notin DOMAIN NcbiTaxa THEN None
       ELSE Taxon(Num(taxon_id), Str(NcbiTaxa[taxon_id]))

read_metadata(model_sbml, model) ==
    LET model1 == [model EXCEPT !.id = OrNone(model_sbml.id), !.name = OrNone(model_sbml.name)]
        desc_xml == get_xml_child_by_names(model_sbml.annotation,
            <<XmlName("rdf", "RDF"), XmlName("rdf", "Description")>>)
        packages == model_sbml.plugins
        unsupported_packages == packages \ SupportedPackages
        framework == read_framework(packages)
        model2 == [model1 EXCEPT !.framework = framework]
        taxon == read_taxon(desc_xml)
        model3 == [model2 EXCEPT !.taxon = None]
    IN IF unsupported_packages # {} THEN
           Outcome(model1, RaiseMsg("BiomodelIoError", "package(s) are not supported"))
       ELSE IF "comp" \in packages /\ model_sbml.numModelDefinitions > 0 THEN
           Outcome(model1, RaiseMsg("BiomodelIoError", "comp package is not supported"))
       ELSE IF "comp" \in packages /\ model_sbml.numSubmodels > 0 THEN
           Outcome(model1, RaiseMsg("BiomodelIoError", "comp package is not supported"))
       ELSE IF Raised(framework) THEN Outcome(model1, framework)
       ELSE IF Raised(taxon) THEN Outcome(model3, taxon)
       ELSE Outcome([model3 EXCEPT !.taxon = taxon], [model3 EXCEPT !.taxon = taxon])

\* a dict: the sequence of its <<key, value>> items in insertion order
DictKeys(d) == {d[i][1] : i \in DOMAIN d}

\* d[key]
DictGet(d, key) == d[CHOOSE i \in DOMAIN d : d[i][1] = key][2]

\* d.get(key, default)
DictGetOr(d, key, default) == IF key \in DictKeys(d) THEN DictGet(d, key) ELSE default

\* d[key] = value: a new key goes last, a key the dict has keeps its place
DictSet(d, key, value) ==
    IF key \in DictKeys(d) THEN
        [i \in DOMAIN d |-> IF d[i][1] = key THEN <<key, value>> ELSE d[i]]
    ELSE Append(d, <<key, value>>)

\* d.pop(key) of a key the dict has
DictPop(d, key) == LET Keep(item) == item[1] # key IN SelectSeq(d, Keep)

\* d.values()
DictValues(d) == [i \in DOMAIN d |-> d[i][2]]

\* d after d[items[i][1]] = items[i][2] for every i in turn
RECURSIVE DictUpdate(_, _)
DictUpdate(d, items) ==
    IF items = <<>> THEN d
    ELSE DictUpdate(DictSet(d, Head(items)[1], Head(items)[2]), Tail(items))

\* the dict object of the items d
ItemsDict(d) == [cls |-> "dict", items |-> d]

\* one after the other, the sequences of a sequence of sequences
RECURSIVE Concat(_)
Concat(seqs) == IF seqs = <<>> THEN <<>> ELSE Head(seqs) \o Concat(Tail(seqs))

\* s1 + sep + s2 + ..., for a sequence of strings
RECURSIVE Join(_, _)
Join(strings, sep) ==
    IF strings = <<>> THEN ""
    ELSE IF Len(strings) = 1 THEN strings[1]
    ELSE strings[1] \o sep \o Join(Tail(strings), sep)

\* utils.pretty_print_units(s): the unit expression s as a string
pretty_print_units(s) == Str(s)

\* what printUnits(unit_def, True) returns for a unit definition that has no
\* units libsbml can name
Indeterminable == <<"indeterminable">>

\* lines 722-739; printUnits is the sequence of the units that printUnits
\* separates by ', '
format_unit_def(unit_def_sbml) ==
    IF ~Truthy(unit_def_sbml) THEN None
    ELSE IF Join(unit_def_sbml.printUnits, ", ") = "indeterminable" THEN None
    ELSE pretty_print_units(Join(unit_def_sbml.printUnits, " * "))

\* self._logger.log(logging.ERROR, '{}: <what>'.format(self._filename, ...)):
\* the record the logger sbml gets, without the name of the file
LogRecord(what) == [logger |-> "sbml", level |-> "ERROR", msg |-> what]

\* line 736: what _format_unit_def logs for the unit definition
format_unit_def_log(unit_def_sbml) ==
    IF Truthy(unit_def_sbml) /\ format_unit_def(unit_def_sbml) = None
    THEN << LogRecord("unit definition " \o unit_def_sbml.id \o " is invalid") >>
    ELSE <<>>

\* what _read_parameter logs: nothing when the assertion of line 456 fails
read_parameter_log(param_sbml) ==
    IF param_sbml.id = "" THEN <<>> ELSE format_unit_def_log(param_sbml.derivedUnitDefinition)

\* an item <<key, value, log>> of a statement that stores a parameter, or
\* raises, after it has logged; ItemLog is the log of an item
ItemLog(item) == IF Len(item) >= 3 THEN item[3] ELSE <<>>

\* what _read_units logs
read_units_log(model_sbml) ==
    LET defs == model_sbml.unitDefinitions
    IN Concat([i \in DOMAIN defs |-> format_unit_def_log(defs[i].derivedUnitDefinition)])

read_units(model_sbml, model) ==
    LET defs == model_sbml.unitDefinitions
        unit_def(i) == <<defs[i].id, format_unit_def(defs[i].derivedUnitDefinition)>>
    IN Outcome(model, ItemsDict(DictUpdate(<<>>, [i \in DOMAIN defs |-> unit_def(i)])))
(***************************************************************************)
(* SbmlBiomodelReader._read_parameters                                     *)
(***************************************************************************)
integer == Enum("Type", Str("integer"))

\* the float of a Python number n
Float(n) == Num(FloatOf(n))

\* [lower, upper] of self._calc_recommended_param_range(value)
RecommendedRange(value) ==
    LET range == calc_recommended_param_range(value, DefaultFold, DefaultFold)
    IN PyList(<<Num(range[1]), Num(range[2])>>)

\* model_sbml.getElementBySId(id): the first element with that id, or None
getElementBySId(model_sbml, id) ==
    LET HasId(element) == element.id = id
        found == SelectSeq(model_sbml.parameters \o model_sbml.compartments
                           \o model_sbml.species \o model_sbml.reactions, HasId)
    IN IF found = <<>> THEN None ELSE found[1]

get_compartment(model_sbml, comp_id) ==
    LET HasId(comp_sbml) == comp_sbml.id = comp_id
        found == SelectSeq(model_sbml.compartments, HasId)
    IN IF found = <<>> THEN None ELSE found[1]

get_reaction(model_sbml, rxn_id) ==
    LET HasId(rxn_sbml) == rxn_sbml.id = rxn_id
        found == SelectSeq(model_sbml.reactions, HasId)
    IN IF found = <<>> THEN None ELSE found[1]

\* (type, value) of a constant, (None, None) of any other expression
read_constant_from_math(math_sbml) ==
    IF math_sbml.type = "AST_INTEGER" THEN <<integer, Num(math_sbml.value)>>
    ELSE IF math_sbml.type \in {"AST_REAL", "AST_REAL_E"} THEN <<float, Num(math_sbml.value)>>
    ELSE <<None, None>>

\* x.getName() of the element x that getElementBySId or _get_reaction returned
AttributeError == RaiseMsg("AttributeError", "'NoneType' object has no attribute")

AssertionError == RaiseMsg("AssertionError", "")

\* "/".join of the steps of a target, with the leading "/"
RECURSIVE Path(_)
Path(steps) == IF steps = <<>> THEN "" ELSE "/" \o Head(steps) \o Path(Tail(steps))

\* "{}:{}[@id='{}']".format(rxn_sbml.getPrefix() or 'sbml', rxn_sbml.getElementName(), rxn_id)
ReactionStep(rxn_sbml, rxn_id) ==
    OrStr(rxn_sbml.prefix, "sbml") \o ":" \o rxn_sbml.elementName \o "[@id='" \o rxn_id \o "']"

\* rxn_sbml, rxn_id and rxn_name are None for a global parameter
read_parameter(param_sbml, model, rxn_sbml, rxn_id, rxn_name) ==
    LET id == param_sbml.id
        name == OrStr(param_sbml.name, id)
        list == IF LevelOf(model.format.version.s) >= 3 THEN "sbml:listOfLocalParameters"
                ELSE "sbml:listOfParameters"
        target ==
            IF Truthy(rxn_sbml) THEN
                <<"sbml:sbml", "sbml:model", "sbml:listOfReactions",
                  ReactionStep(rxn_sbml, rxn_id.s), "sbml:kineticLaw", list,
                  "sbml:" \o param_sbml.elementName \o "[@id='" \o id \o "']", "@value">>
            ELSE <<"sbml:sbml", "sbml:model", "sbml:listOfParameters",
                   "sbml:parameter[@id='" \o id \o "']", "@value">>
        group == IF Truthy(rxn_sbml)
                 THEN (IF Truthy(rxn_name) THEN rxn_name.s ELSE rxn_id.s) \o " rate constants"
                 ELSE "Other global parameters"
        param == Parameter(Str(Path(target)), Str(group), Str(id), Str(name), None,
                           PyList(<<>>), float, Num(param_sbml.value),
                           RecommendedRange(param_sbml.value),
                           format_unit_def(param_sbml.derivedUnitDefinition))
    IN IF id = "" THEN AssertionError
       ELSE IF Truthy(rxn_id) THEN
           [param EXCEPT
               !.id = Str(rxn_id.s \o "/" \o id),
               !.name = Str((IF Truthy(rxn_name) THEN rxn_name.s ELSE rxn_id.s) \o ": " \o name)]
       ELSE param

\* lines 203-205: the <<key, parameter>> items the loop stores, in order
global_parameters(model_sbml, model) ==
    LET params == model_sbml.parameters
    IN [i \in DOMAIN params |->
           <<Str(params[i].id), read_parameter(params[i], model, None, None, None),
             read_parameter_log(params[i])>>]

\* lines 207-217
local_parameters(model_sbml, model) ==
    LET rxns == model_sbml.reactions
        OfReaction(rxn_sbml) ==
            IF ~Truthy(rxn_sbml.kineticLaw) THEN <<>>
            ELSE LET params == rxn_sbml.kineticLaw.parameters
                 IN [i \in DOMAIN params |->
                        IF rxn_sbml.id = "" THEN <<None, AssertionError>>
                        ELSE <<PyTuple(<<Str(rxn_sbml.id), Str(params[i].id)>>),
                               read_parameter(params[i], model, rxn_sbml, Str(rxn_sbml.id),
                                              OrNone(rxn_sbml.name)),
                               read_parameter_log(params[i])>>]
    IN Concat([i \in DOMAIN rxns |-> OfReaction(rxns[i])])

\* lines 219-246
compartment_sizes(model_sbml) ==
    LET comps == model_sbml.compartments
        OfCompartment(comp_sbml) ==
            LET comp_id == comp_sbml.id
                comp_name == OrStr(comp_sbml.name, comp_id)
            IN IF comp_sbml.isType \/ ~comp_sbml.isSetSize THEN <<>>
               ELSE IF comp_id = "" THEN << <<None, AssertionError>> >>
               ELSE << <<Str(comp_id), Parameter(
                       Str("/sbml:sbml/sbml:model/sbml:listOfCompartments/sbml:compartment[@id='"
                           \o comp_id \o "']/@size"),
                       Str("Initial compartment sizes"),
                       Str("init_size_" \o comp_id),
                       Str("Initial size of " \o comp_name),
                       None, PyList(<<>>), float, Num(comp_sbml.size),
                       RecommendedRange(comp_sbml.size),
                       format_unit_def(comp_sbml.derivedUnitDefinition)),
                     format_unit_def_log(comp_sbml.derivedUnitDefinition)>> >>
    IN Concat([i \in DOMAIN comps |-> OfCompartment(comps[i])])
\* pretty_print_units('({}) / ({})'.format(a, b)), for a string a and a string
\* or None b
UnitsRatio(a, b) ==
    pretty_print_units("(" \o a \o ") / (" \o (IF b.cls = "str" THEN b.s ELSE "None") \o ")")

\* lines 250-251: the species the loop does not skip
HasInitialValue(species_sbml) ==
    species_sbml.isSetInitialAmount \/ species_sbml.isSetInitialConcentration

\* lines 248-297
species_initial_values(model_sbml, units) ==
    LET all == model_sbml.species
        OfSpecies(species_sbml) ==
            LET species_id == species_sbml.id
                species_name == OrStr(species_sbml.name, species_id)
                units_id == OrStr(species_sbml.substanceUnits, model_sbml.substanceUnits)
                looked_up == DictGetOr(units.items, units_id, None)
                species_substance_units == IF Truthy(looked_up) THEN looked_up ELSE Str(units_id)
                amount == species_sbml.isSetInitialAmount
                species_initial_type == IF amount THEN "Amount" ELSE "Concentration"
                lower == IF amount THEN "amount" ELSE "concentration"
                species_initial_val ==
                    IF amount THEN species_sbml.initialAmount
                    ELSE species_sbml.initialConcentration
                comp_sbml == get_compartment(model_sbml, species_sbml.compartment)
                species_initial_units ==
                    IF amount THEN species_substance_units
                    ELSE IF Truthy(species_substance_units)
                    THEN UnitsRatio(species_substance_units.s,
                                    format_unit_def(comp_sbml.derivedUnitDefinition))
                    ELSE None
                species_log ==
                    IF Truthy(looked_up) THEN <<>>
                    ELSE << LogRecord("species " \o species_id \o " does not have valid units") >>
                comp_log ==
                    IF ~amount /\ Truthy(species_substance_units)
                    THEN format_unit_def_log(comp_sbml.derivedUnitDefinition)
                    ELSE <<>>
            IN IF ~HasInitialValue(species_sbml) THEN <<>>
               ELSE IF species_id = "" THEN << <<None, AssertionError>> >>
               ELSE IF ~amount /\ Truthy(species_substance_units) /\ ~Truthy(comp_sbml)
                    THEN << <<None, AttributeError, species_log>> >>
               ELSE << <<Str(species_id), Parameter(
                       Str(Path(<<"sbml:sbml", "sbml:model", "sbml:listOfSpecies",
                                  "sbml:species[@id='" \o species_id \o "']",
                                  "@initial" \o species_initial_type>>)),
                       Str("Initial species amounts/concentrations"),
                       Str("init_" \o lower \o "_" \o species_id),
                       Str("Initial " \o lower \o " of " \o species_name),
                       None, PyList(<<>>), float, Num(species_initial_val),
                       RecommendedRange(species_initial_val), species_initial_units),
                     species_log \o comp_log>> >>
    IN Concat([i \in DOMAIN all |-> OfSpecies(all[i])])

\* the local variable species_id when the loop of lines 249-297 is over: the id
\* of the last species the loop did not skip, or None when the name is unbound
species_id_after_loop(model_sbml) ==
    LET assigned == SelectSeq(model_sbml.species, HasInitialValue)
    IN IF assigned = <<>> THEN None ELSE Str(assigned[Len(assigned)].id)

\* lines 299-327
initial_assignments(model_sbml) ==
    LET all == model_sbml.initialAssignments
        OfAssignment(init_assignment_sbml) ==
            LET symbol_id == init_assignment_sbml.symbol
                symbol_sbml == getElementBySId(model_sbml, symbol_id)
                constant == read_constant_from_math(init_assignment_sbml.math)
            IN IF ~Truthy(constant[1]) THEN <<>>
               ELSE IF ~Truthy(symbol_sbml) THEN << <<None, AttributeError>> >>
               ELSE << <<Str("init_assignment_" \o symbol_id), Parameter(
                       Str(Path(<<"sbml:sbml", "sbml:model", "sbml:listOfInitialAssignments",
                                  "sbml:initialAssignment[@symbol='" \o symbol_id \o "']",
                                  "mathml:math", "mathml:cn", "text">>)),
                       Str("Initial assignments"),
                       Str("init_assignment_" \o symbol_id),
                       Str("Initial assignment of " \o OrStr(symbol_sbml.name, symbol_id)),
                       None, PyList(<<>>), constant[1], constant[2],
                       RecommendedRange(constant[2].n),
                       format_unit_def(symbol_sbml.derivedUnitDefinition)),
                     format_unit_def_log(symbol_sbml.derivedUnitDefinition)>> >>
    IN Concat([i \in DOMAIN all |-> OfAssignment(all[i])])

\* lines 329-358
assignment_rules(model_sbml) ==
    LET all == model_sbml.rules
        OfRule(rule_sbml) ==
            LET var_id == rule_sbml.variable
                var_sbml == getElementBySId(model_sbml, var_id)
                constant == read_constant_from_math(rule_sbml.math)
            IN IF ~rule_sbml.isScalar \/ ~Truthy(constant[1]) THEN <<>>
               ELSE IF ~Truthy(var_sbml) THEN << <<None, AttributeError>> >>
               ELSE << <<Str("assignment_" \o var_id), Parameter(
                       Str(Path(<<"sbml:sbml", "sbml:model", "sbml:listOfRules",
                                  "sbml:assignmentRule[@variable='" \o var_id \o "']",
                                  "mathml:math", "mathml:cn", "text">>)),
                       Str("Assignments"),
                       Str("assignment_" \o var_id),
                       Str("Assignment of " \o OrStr(var_sbml.name, var_id)),
                       None, PyList(<<>>), constant[1], constant[2],
                       RecommendedRange(constant[2].n),
                       format_unit_def(var_sbml.derivedUnitDefinition)),
                     format_unit_def_log(var_sbml.derivedUnitDefinition)>> >>
    IN Concat([i \in DOMAIN all |-> OfRule(all[i])])

\* BiomodelParameter(...) of lines 373-392, or the exception its arguments raise
flux_objective_parameter(model_sbml, obj_sbml, flux_obj_sbml) ==
    LET obj_id == obj_sbml.id
        obj_name == OrStr(obj_sbml.name, obj_id)
        rxn_id == flux_obj_sbml.reaction
        rxn_sbml == get_reaction(model_sbml, rxn_id)
        rxn_name == OrStr(rxn_sbml.name, rxn_id)
    IN IF ~Truthy(rxn_sbml) THEN AttributeError
       ELSE Parameter(
               Str(Path(<<"sbml:sbml", "sbml:model", "fbc:listOfObjectives",
                          "fbc:objective[@fbc:id='" \o obj_id \o "']",
                          "fbc:listOfFluxObjectives",
                          "fbc:fluxObjective[@fbc:reaction='" \o rxn_id \o "']",
                          "@fbc:coefficient">>)),
               Str("Flux objective coefficients"),
               Str(obj_id \o "/" \o rxn_id),
               Str("Coefficient of " \o obj_name \o " of " \o rxn_name),
               None, PyList(<<>>), float, Num(flux_obj_sbml.coefficient),
               RecommendedRange(flux_obj_sbml.coefficient), Str("dimensionless"))

UnboundLocalError ==
    RaiseMsg("UnboundLocalError", "local variable 'species_id' referenced before assignment")

\* lines 360-392: every coefficient is stored under parameters[species_id], the
\* variable the loop over the species left behind
flux_objectives(model_sbml) ==
    LET obj_sbml == model_sbml.activeObjective
        species_id == species_id_after_loop(model_sbml)
        OfFluxObjective(flux_obj_sbml) ==
            LET param == flux_objective_parameter(model_sbml, obj_sbml, flux_obj_sbml)
            IN IF Raised(param) THEN <<None, param>>
               ELSE IF species_id = None THEN <<None, UnboundLocalError>>
               ELSE <<species_id, param>>
    IN IF "fbc" \notin model_sbml.plugins THEN <<>>
       ELSE IF ~Truthy(obj_sbml) THEN << <<None, AssertionError>> >>
       ELSE [i \in DOMAIN obj_sbml.fluxObjectives |-> OfFluxObjective(obj_sbml.fluxObjectives[i])]
Max(a, b) == IF a > b THEN a ELSE b

\* lines 394-422
qualitative_species(model_sbml) ==
    LET all == model_sbml.qualitativeSpecies
        OfSpecies(species_sbml) ==
            LET species_id == species_sbml.id
                init_level == species_sbml.initialLevel
                max_level == IF species_sbml.isSetMaxLevel THEN species_sbml.maxLevel
                             ELSE Max(1, init_level)
            IN <<Str(species_id), Parameter(
                   Str(Path(<<"sbml:sbml", "sbml:model", "qual:listOfQualitativeSpecies",
                              "qual:qualitativeSpecies[@qual:id='" \o species_id \o "']",
                              "@qual:initialLevel">>)),
                   Str("Initial species levels"),
                   Str("init_level_" \o species_id),
                   Str("Initial level of " \o OrStr(species_sbml.name, species_id)),
                   None, PyList(<<>>), integer, Float(init_level),
                   PyList(<<Float(0), Float(max_level)>>), Str("dimensionless"))>>
    IN IF "qual" \notin model_sbml.plugins THEN <<>>
       ELSE [i \in DOMAIN all |-> OfSpecies(all[i])]

\* lines 201-422: every parameters[key] = ... of the method in the order the
\* method runs them; an item <<None, exception>> stands for a statement that
\* raises instead of storing
collected_items(model_sbml, model, units) ==
    global_parameters(model_sbml, model)
    \o local_parameters(model_sbml, model)
    \o compartment_sizes(model_sbml)
    \o species_initial_values(model_sbml, units)
    \o initial_assignments(model_sbml)
    \o assignment_rules(model_sbml)
    \o flux_objectives(model_sbml)
    \o qualitative_species(model_sbml)

\* the exceptions among the items, the first one first
Exceptions(items) == LET IsRaise(item) == Raised(item[2]) IN SelectSeq(items, IsRaise)

\* the dict parameters when line 422 is passed
collect_parameters(model_sbml, model, units) ==
    DictUpdate(<<>>, collected_items(model_sbml, model, units))

\* d after "if key in d: d.pop(key)" for every key in turn
RECURSIVE PopAll(_, _)
PopAll(d, keys) ==
    IF keys = <<>> THEN d
    ELSE PopAll(IF Head(keys) \in DictKeys(d) THEN DictPop(d, Head(keys)) ELSE d, Tail(keys))

\* variant: the rules loop pops nothing
remove_rule_variables_Nothing(parameters, model_sbml) == parameters

\* lines 425-429
remove_rule_variables(parameters, model_sbml) ==
    LET IsScalar(rule_sbml) == rule_sbml.isScalar
        rules == SelectSeq(model_sbml.rules, IsScalar)
    IN PopAll(parameters, [i \in DOMAIN rules |-> Str(rules[i].variable)])

\* lines 431-434
remove_initial_assignment_symbols(parameters, model_sbml) ==
    LET all == model_sbml.initialAssignments
    IN PopAll(parameters, [i \in DOMAIN all |-> Str(all[i].symbol)])

\* parameters.values()
dict_values(d) == [cls |-> "dict_values", items |-> DictValues(d)]

\* what _read_parameters logs: the logs of its statements up to the first one
\* that raises
read_parameters_log(items) ==
    LET Raises(i) == Raised(items[i][2])
        last == IF \E i \in DOMAIN items : Raises(i)
                THEN CHOOSE i \in DOMAIN items : Raises(i) /\ \A j \in 1..(i - 1) : ~Raises(j)
                ELSE Len(items)
    IN Concat([i \in 1..last |-> ItemLog(items[i])])

\* lines 424-438 for the items of lines 200-422: the first statement that
\* raises ends the method
store_parameters(items, model_sbml, model) ==
    LET parameters == remove_initial_assignment_symbols(
            remove_rule_variables(DictUpdate(<<>>, items), model_sbml), model_sbml)
    IN IF Exceptions(items) # <<>> THEN Outcome(model, Exceptions(items)[1][2])
       ELSE Outcome([model EXCEPT !.parameters = dict_values(parameters)],
                    dict_values(parameters))

read_parameters(model_sbml, model, units) ==
    store_parameters(collected_items(model_sbml, model, units), model_sbml, model)

(***************************************************************************)
(* SbmlBiomodelReader._read_variables                                      *)
(***************************************************************************)
\* units.get(id, None), or the id itself when that is falsy
UnitsOrId(units, id) ==
    LET looked_up == DictGetOr(units.items, id, None)
    IN IF Truthy(looked_up) THEN looked_up.s ELSE id

\* lines 532-576
flux_variables(model_sbml, units) ==
    LET flux_units == UnitsRatio(UnitsOrId(units, model_sbml.extentUnits),
                                 Str(UnitsOrId(units, model_sbml.timeUnits)))
        obj_sbml == model_sbml.activeObjective
        obj_id == obj_sbml.id
        rxns == model_sbml.reactions
        OfReaction(rxn_sbml) ==
            Variable(Str("/sbml:sbml/sbml:model/sbml:listOfReactions/"
                         \o ReactionStep(rxn_sbml, rxn_sbml.id)),
                     Str("Reaction fluxes"), Str(rxn_sbml.id), OrNone(rxn_sbml.name),
                     None, PyList(<<>>), float, flux_units)
    IN IF ~Truthy(obj_sbml) \/ obj_id = "" THEN << AssertionError >>
       ELSE << Variable(Str("/sbml:sbml/sbml:model/fbc:listOfObjectives/fbc:objective[@fbc:id='"
                            \o obj_id \o "']"),
                        Str("Objectives"), Str(obj_id), Str(OrStr(obj_sbml.name, obj_id)),
                        None, PyList(<<>>), float, flux_units) >>
            \o [i \in DOMAIN rxns |-> OfReaction(rxns[i])]

\* lines 637-665
read_variable(model_sbml, species_sbml, model) ==
    IF species_sbml.id = "" THEN AssertionError
    ELSE Variable(Str("/sbml:sbml/sbml:model/sbml:listOfSpecies/sbml:species[@id='"
                      \o species_sbml.id \o "']"),
                  Str("Species amounts/concentrations"), Str(species_sbml.id),
                  OrNone(species_sbml.name), None, PyList(<<>>), float,
                  format_unit_def(species_sbml.derivedUnitDefinition))

\* lines 583-615
rule_variables(model_sbml) ==
    LET all == model_sbml.rules
        OfRule(rule_sbml) ==
            LET var_id == rule_sbml.variable
                var_sbml == getElementBySId(model_sbml, var_id)
                list == IF var_sbml.cls = "libsbml.Parameter"
                        THEN "/sbml:sbml/sbml:model/sbml:listOfParameters/sbml:parameter[@id='"
                        ELSE "/sbml:sbml/sbml:model/sbml:listOfCompartments/sbml:compartment[@id='"
                group == IF var_sbml.cls = "libsbml.Parameter" THEN "Other" ELSE "Compartment sizes"
            IN IF Truthy(read_constant_from_math(rule_sbml.math)[1]) \/ ~rule_sbml.isScalar
               THEN <<>>
               ELSE IF ~Truthy(var_sbml) THEN <<>>
               ELSE IF var_sbml.cls \notin {"libsbml.Parameter", "libsbml.Compartment"} THEN <<>>
               ELSE << Variable(Str(list \o var_id \o "']"), Str(group), Str(var_id),
                                OrNone(var_sbml.name), None, PyList(<<>>), float,
                                format_unit_def(var_sbml.derivedUnitDefinition)) >>
    IN Concat([i \in DOMAIN all |-> OfRule(all[i])])

\* lines 617-633
qualitative_variables(model_sbml) ==
    LET all == model_sbml.qualitativeSpecies
        OfSpecies(species_sbml) ==
            Variable(Str("/sbml:sbml/sbml:model/qual:listOfQualitativeSpecies"
                         \o "/qual:qualitativeSpecies[@qual:id='" \o species_sbml.id \o "']"),
                     Str("Species levels"), Str(species_sbml.id), OrNone(species_sbml.name),
                     None, PyList(<<>>), integer, Str("dimensionless"))
    IN IF "qual" \notin model_sbml.plugins THEN <<>>
       ELSE [i \in DOMAIN all |-> OfSpecies(all[i])]

\* lines 533-541: what _read_variables logs for the units of the fluxes
flux_units_log(model_sbml, units) ==
    LET Unresolved(id) == ~Truthy(DictGetOr(units.items, id, None))
    IN (IF Unresolved(model_sbml.extentUnits)
        THEN << LogRecord("model does not have valid extent units") >> ELSE <<>>)
       \o (IF Unresolved(model_sbml.timeUnits)
           THEN << LogRecord("model does not have valid time units") >> ELSE <<>>)

\* what the loops of lines 580-615 log: _format_unit_def for every variable
\* they append, up to the species whose id fails the assertion
species_variables_log(model_sbml) ==
    LET species == model_sbml.species
        NoId(i) == species[i].id = ""
        last == IF \E i \in DOMAIN species : NoId(i)
                THEN (CHOOSE i \in DOMAIN species : NoId(i) /\ \A j \in 1..(i - 1) : ~NoId(j)) - 1
                ELSE Len(species)
        rules == rule_variables(model_sbml)
        OfRule(var) ==
            format_unit_def_log(getElementBySId(model_sbml, var.id.s).derivedUnitDefinition)
    IN Concat([i \in 1..last |-> format_unit_def_log(species[i].derivedUnitDefinition)])
       \o (IF last < Len(species) THEN <<>> ELSE Concat([i \in DOMAIN rules |-> OfRule(rules[i])]))

\* what _read_variables logs
read_variables_log(model_sbml, units) ==
    IF "fbc" \in model_sbml.plugins THEN flux_units_log(model_sbml, units)
    ELSE species_variables_log(model_sbml)

\* model.variables is the list vars the method appends to: it keeps what was
\* appended before an exception
read_variables(model_sbml, model, units) ==
    LET species == model_sbml.species
        appended ==
            IF "fbc" \in model_sbml.plugins THEN flux_variables(model_sbml, units)
            ELSE [i \in DOMAIN species |-> read_variable(model_sbml, species[i], model)]
                 \o rule_variables(model_sbml)
                 \o qualitative_variables(model_sbml)
        IsRaise(var) == Raised(var)
        raised == SelectSeq(appended, IsRaise)
        first == CHOOSE i \in DOMAIN appended : Raised(appended[i]) /\
                     \A j \in 1..(i - 1) : ~Raised(appended[j])
        vars_ == IF raised = <<>> THEN appended ELSE SubSeq(appended, 1, first - 1)
    IN Outcome([model EXCEPT !.variables = PyList(vars_)],
               IF raised = <<>> THEN PyList(vars_) ELSE raised[1])
(***************************************************************************)
(* SBML models read by the reader                                          *)
(***************************************************************************)
\* most species of a model
MaxSpecies == 2

\* most reactions of a model and most flux objectives of an objective
MaxFluxObjectives == 2

\* a unit definition and the units printUnits prints for it
UnitDefinition(id, printUnits) ==
    [cls |-> "libsbml.UnitDefinition", id |-> id, printUnits |-> printUnits]

SbmlParameter(id, name, value) ==
    [cls |-> "libsbml.Parameter", id |-> id, name |-> name, value |-> value,
     derivedUnitDefinition |-> UnitDefinition("", <<"second (exponent = -1)">>),
     elementName |-> "parameter"]

LocalParameter(id, value) ==
    [cls |-> "libsbml.LocalParameter", id |-> id, name |-> "", value |-> value,
     derivedUnitDefinition |-> None,
     elementName |-> "localParameter"]

KineticLaw(parameters) == [cls |-> "libsbml.KineticLaw", parameters |-> parameters]

Reaction(id, name, kineticLaw) ==
    [cls |-> "libsbml.Reaction", id |-> id, name |-> name, prefix |-> "",
     elementName |-> "reaction", kineticLaw |-> kineticLaw,
     derivedUnitDefinition |-> None]

Compartment(id, name, isType, isSetSize, size) ==
    [cls |-> "libsbml.Compartment", id |-> id, name |-> name, isType |-> isType,
     isSetSize |-> isSetSize, size |-> size,
     derivedUnitDefinition |-> UnitDefinition("", <<"litre">>)]

\* set is "amount", "concentration" or "" for a species with no initial value
Species(id, name, set, value, compartment, substanceUnits) ==
    [cls |-> "libsbml.Species", id |-> id, name |-> name,
     isSetInitialAmount |-> set = "amount",
     isSetInitialConcentration |-> set = "concentration",
     initialAmount |-> value, initialConcentration |-> value,
     compartment |-> compartment, substanceUnits |-> substanceUnits,
     derivedUnitDefinition |-> UnitDefinition("", <<"mole">>)]

Math(type, value) == [type |-> type, value |-> value]

InitialAssignment(symbol, math) == [symbol |-> symbol, math |-> math]

Rule(isScalar, variable, math) == [isScalar |-> isScalar, variable |-> variable, math |-> math]

FluxObjective(reaction, coefficient) == [reaction |-> reaction, coefficient |-> coefficient]

Objective(id, name, fluxObjectives) ==
    [cls |-> "libsbml.Objective", id |-> id, name |-> name, fluxObjectives |-> fluxObjectives]

QualitativeSpecies(id, name, initialLevel, isSetMaxLevel, maxLevel) ==
    [cls |-> "libsbml.QualitativeSpecies", id |-> id, name |-> name,
     initialLevel |-> initialLevel, isSetMaxLevel |-> isSetMaxLevel, maxLevel |-> maxLevel]

\* a model with no elements, no packages and no annotation
EmptySbmlModel ==
    [cls |-> "libsbml.Model", id |-> "", name |-> "", level |-> 3, version |-> 1,
     annotation |-> None, plugins |-> {}, numModelDefinitions |-> 0, numSubmodels |-> 0,
     substanceUnits |-> "mole", extentUnits |-> "mole", timeUnits |-> "",
     unitDefinitions |->
         << [id |-> "mole", derivedUnitDefinition |-> UnitDefinition("mole", <<"mole">>)] >>,
     parameters |-> <<>>, reactions |-> <<>>, compartments |-> <<>>, species |-> <<>>,
     initialAssignments |-> <<>>, rules |-> <<>>, activeObjective |-> None,
     qualitativeSpecies |-> <<>>]

GlobalParameterLists ==
    { <<>>,
      << SbmlParameter("k1", "", FloatOf(0)) >>,
      << SbmlParameter("k1", "K1", FloatOf(9)), SbmlParameter("init_size_c1", "", -FloatOf(1)) >> }

\* reactions r1 .. rn; the odd ones have a kinetic law with a local parameter
ReactionList(n) ==
    [i \in 1..n |->
        Reaction("r" \o IntStr(i), IF i = 1 THEN "R1" ELSE "",
                 IF i % 2 = 1 THEN KineticLaw(<< LocalParameter("k1", FloatOf(3)) >>)
                 ELSE None)]

CompartmentLists ==
    { <<>>,
      << Compartment("c1", "", FALSE, TRUE, FloatOf(1)) >>,
      << Compartment("c1", "C1", FALSE, FALSE, FloatOf(0)),
         Compartment("c2", "", TRUE, TRUE, FloatOf(1)),
         Compartment("s1", "", FALSE, TRUE, FloatOf(0)) >> }

\* species s1 .. sn, the i-th with the initial value sets[i] says
SpeciesList(sets) ==
    [i \in DOMAIN sets |->
        Species("s" \o IntStr(i), IF i = 1 THEN "S1" ELSE "", sets[i],
                IF i = 1 THEN FloatOf(3) ELSE FloatOf(0), "c1",
                IF i = 1 THEN "" ELSE "item")]

SpeciesLists ==
    {SpeciesList(sets) : sets \in SeqsUpTo({"amount", "concentration", ""}, MaxSpecies)}

InitialAssignmentLists ==
    { <<>>,
      << InitialAssignment("k1", Math("AST_REAL", FloatOf(3))) >>,
      << InitialAssignment("s1", Math("AST_PLUS", 0)),
         InitialAssignment("c1", Math("AST_INTEGER", FloatOf(0))) >> }

RuleLists ==
    { <<>>,
      << Rule(TRUE, "k1", Math("AST_INTEGER", FloatOf(2))) >>,
      << Rule(TRUE, "s1", Math("AST_TIMES", 0)), Rule(FALSE, "c1", Math("AST_REAL", FloatOf(1))),
         Rule(TRUE, "c1", Math("AST_RATIONAL", 0)) >> }

\* the objective obj of the fluxes of r1 .. rn
ObjectiveOf(n) ==
    Objective("obj", "", [i \in 1..n |-> FluxObjective("r" \o IntStr(i), FloatOf(i - 1))])

QualitativeSpeciesLists ==
    { <<>>,
      << QualitativeSpecies("q1", "", 1, TRUE, 3), QualitativeSpecies("s1", "Q2", 2, FALSE, 0),
         QualitativeSpecies("q3", "", 0, FALSE, 0) >> }
\* <annotation><rdf:RDF><rdf:Description> children </rdf:Description></rdf:RDF></annotation>
Annotation(children) ==
    XmlNode("", "annotation", <<>>,
        << XmlNode("rdf", "RDF", <<>>,
            << XmlNode("rdf", "Description", <<>>, children) >>) >>)

\* <bqbiol:hasTaxon><rdf:Bag> lis </rdf:Bag></bqbiol:hasTaxon>
HasTaxon(lis) ==
    XmlNode("bqbiol", "hasTaxon", <<>>, << XmlNode("rdf", "Bag", <<>>, lis) >>)

\* <rdf:li prefix:name="value"/>
Li(prefix, name, value) ==
    XmlNode("rdf", "li", << [prefix |-> prefix, name |-> name, value |-> value] >>, <<>>)

TaxonomyUrl(scheme, host, ids) == <<scheme, host, ".", "org/taxonomy/">> \o ids

Urls ==
    { TaxonomyUrl("https", "://identifiers", <<"9", "6", "0", "6">>),
      TaxonomyUrl("http", "://identifiers", <<"9", "6", "0", "6", "x">>),
      TaxonomyUrl("http", "://identifiers", <<"1">>),
      TaxonomyUrl("https", "://identifiers", <<"x", "1">>),
      TaxonomyUrl("https", "://identifiers", <<>>),
      TaxonomyUrl("ftp", "://identifiers", <<"9", "6", "0", "6">>),
      TaxonomyUrl("https", "://purl", <<"9", "6", "0", "6">>),
      <<"https", "://identifiers", "-", "org/taxonomy/", "9", "6", "0", "6">>,
      <<"urn:miriam:taxonomy:9606">> }

Annotations ==
    {None, XmlNode("", "annotation", <<>>, <<>>), Annotation(<<>>)}
    \cup {Annotation(<< HasTaxon(<< Li("rdf", "resource", url) >>) >>) : url \in Urls}
    \cup { \* several li entries, several hasTaxon elements
           Annotation(<< HasTaxon(<< Li("rdf", "resource", url), Li("rdf", "resource", url) >>) >>)
               : url \in {TaxonomyUrl("https", "://identifiers", <<"9", "6", "0", "6">>)} }
    \cup { Annotation(<< HasTaxon(<< Li("rdf", "resource", url) >>),
                         HasTaxon(<< Li("rdf", "resource", url) >>) >>)
               : url \in {TaxonomyUrl("https", "://identifiers", <<"9", "6", "0", "6">>)} }
    \cup { \* li without an rdf:resource attribute
           Annotation(<< HasTaxon(<< XmlNode("rdf", "li", <<>>, <<>>) >>) >>),
           Annotation(<< HasTaxon(<< Li("bqbiol", "resource", <<"9606">>) >>) >>) }

\* models that differ in the elements the parameters are read from
ModelsOfParameters ==
    {[EmptySbmlModel EXCEPT
        !.id = "m1",
        !.parameters = parameters, !.reactions = ReactionList(1),
        !.compartments = compartments, !.species = species,
        !.initialAssignments = initialAssignments, !.rules = rules] :
        parameters \in GlobalParameterLists, compartments \in CompartmentLists,
        species \in SpeciesLists, initialAssignments \in InitialAssignmentLists,
        rules \in RuleLists}

\* the packages a model can declare, with their plugins
Packages == {"comp", "fbc", "layout", "multi", "qual"}

\* models that differ in their packages and their use of comp
ModelsOfPackages ==
    {[EmptySbmlModel EXCEPT
        !.name = "Model 1",
        !.plugins = plugins,
        !.numModelDefinitions = definitions, !.numSubmodels = submodels,
        !.reactions = ReactionList(1), !.species = SpeciesList(<<"amount">>),
        !.activeObjective = IF "fbc" \in plugins THEN ObjectiveOf(1) ELSE None,
        !.qualitativeSpecies = IF "qual" \in plugins
                               THEN CHOOSE q \in QualitativeSpeciesLists : q # <<>>
                               ELSE <<>>] :
        plugins \in SUBSET Packages, definitions \in {0, 1}, submodels \in {0, 1}}

\* models of the fbc package: an objective of n fluxes, m reactions
ModelsOfFbc ==
    {[EmptySbmlModel EXCEPT
        !.plugins = {"fbc"}, !.timeUnits = "mole",
        !.reactions = ReactionList(m), !.species = species,
        !.activeObjective = IF n < 0 THEN None ELSE ObjectiveOf(n)] :
        m \in 0..MaxFluxObjectives, n \in -1..MaxFluxObjectives,
        species \in SpeciesLists}

\* models of the qual package
ModelsOfQual ==
    {[EmptySbmlModel EXCEPT
        !.plugins = {"qual"}, !.species = species, !.rules = rules,
        !.qualitativeSpecies = qualitativeSpecies] :
        species \in SpeciesLists, rules \in RuleLists,
        qualitativeSpecies \in QualitativeSpeciesLists}

\* what getDerivedUnitDefinition gives: nothing, units that cannot be
\* determined, units
DerivedUnitDefinitions ==
    {None, UnitDefinition("", Indeterminable), UnitDefinition("", <<"mole", "litre (exponent = -1)">>)}

\* models that differ in their units: the unit definitions, the units of the
\* model, the units derived for a parameter, a compartment and a species, with
\* and without initial values of the species
ModelsOfUnits ==
    {[EmptySbmlModel EXCEPT
        !.plugins = plugins,
        !.substanceUnits = modelUnits[1], !.extentUnits = modelUnits[2],
        !.timeUnits = modelUnits[3],
        !.unitDefinitions =
            [i \in DOMAIN defined |->
                [id |-> defined[i], derivedUnitDefinition |-> UnitDefinition(defined[i], derived)]],
        !.parameters =
            << [SbmlParameter("k1", "", FloatOf(1)) EXCEPT !.derivedUnitDefinition = ofElement] >>,
        !.compartments =
            << [Compartment("c1", "", FALSE, TRUE, FloatOf(1))
                    EXCEPT !.derivedUnitDefinition = ofElement] >>,
        !.species =
            << [Species("s1", "", initial[1], FloatOf(1), "c1", "")
                    EXCEPT !.derivedUnitDefinition = ofElement],
               Species("s2", "", initial[2], FloatOf(1), "c1", "") >>,
        !.reactions = ReactionList(1),
        !.rules = IF "fbc" \in plugins THEN <<>> ELSE << Rule(TRUE, "k1", Math("AST_PLUS", 0)) >>,
        !.activeObjective = IF "fbc" \in plugins THEN ObjectiveOf(1) ELSE None] :
        plugins \in {{}, {"fbc"}},
        initial \in {<<"amount", "concentration">>, <<"", "">>},
        modelUnits \in {<<"mole", "mole", "second">>, <<"item", "mole", "second">>,
                        <<"", "mole", "second">>, <<"mole", "item", "second">>,
                        <<"mole", "mole", "">>},
        defined \in {<<>>, <<"mole", "second">>},
        derived \in {Indeterminable, <<"mole">>},
        ofElement \in DerivedUnitDefinitions}

\* models with assignment rules and initial assignments on global parameters
\* and a compartment, among them a parameter named like the entry of a rule
ModelsOfRules ==
    {[EmptySbmlModel EXCEPT
        !.plugins = plugins,
        !.parameters = parameters,
        !.compartments = << Compartment("c1", "", FALSE, TRUE, FloatOf(1)) >>,
        !.initialAssignments = initialAssignments,
        !.rules = rules] :
        plugins \in {{}, {"qual"}},
        parameters \in {<< SbmlParameter("k1", "", FloatOf(1)) >>,
                        << SbmlParameter("k1", "", FloatOf(1)),
                           SbmlParameter("assignment_k1", "", FloatOf(2)) >>},
        initialAssignments \in {<<>>,
                                << InitialAssignment("assignment_k1", Math("AST_PLUS", 0)) >>},
        rules \in {<< Rule(TRUE, "k1", Math("AST_INTEGER", FloatOf(2))) >>,
                   << Rule(TRUE, "k1", Math("AST_PLUS", 0)),
                      Rule(TRUE, "c1", Math("AST_REAL", FloatOf(1))) >>,
                   << Rule(TRUE, "k1", Math("AST_REAL", FloatOf(2))),
                      Rule(TRUE, "c1", Math("AST_RATIONAL", 0)) >>,
                   << Rule(TRUE, "k1", Math("AST_INTEGER", FloatOf(2))),
                      Rule(TRUE, "assignment_k1", Math("AST_PLUS", 0)) >>}}

ModelsOfAnnotations ==
    {[EmptySbmlModel EXCEPT !.annotation = annotation, !.plugins = plugins] :
        annotation \in Annotations, plugins \in {{}, {"fbc", "qual"}}}

\* models of the levels and versions of SBML; the parameters of a kinetic law
\* are parameter elements up to level 2
ModelsOfLevels ==
    {[EmptySbmlModel EXCEPT
        !.level = level, !.version = version,
        !.reactions = << Reaction("r1", "", KineticLaw(<<
            IF level < 3 THEN SbmlParameter("k1", "", FloatOf(3))
            ELSE LocalParameter("k1", FloatOf(3)) >>)) >>] :
        level \in {2, 3}, version \in {1, 2}}

SbmlModels ==
    ModelsOfParameters \cup ModelsOfPackages \cup ModelsOfFbc \cup ModelsOfQual
    \cup ModelsOfAnnotations \cup ModelsOfLevels \cup ModelsOfUnits \cup ModelsOfRules

\* the file systems run reads: a file with a model, a file libsbml finds no
\* model in, no file
FileSystems ==
    {[filename \in {"model.xml"} |-> [size |-> 100, model |-> model]] :
        model \in SbmlModels \cup {None}}
    \cup {[filename \in {"other.xml"} |-> [size |-> 100, model |-> EmptySbmlModel]]}
(***************************************************************************)
(* BiomodelReader.run (biomodel/core.py)                                   *)
(*                                                                         *)
(* json is the file system, obj the Biomodel that run creates, other the   *)
(* local variables of run together with the calls made and the records     *)
(* logged so far, ret the                                                  *)
(* value returned or the exception raised, pc the method run calls next.   *)
(* The local variable model holds a reference to obj.                      *)
(***************************************************************************)
\* the reference the local variable model holds
ModelRef == [cls |-> "ref", to |-> "Biomodel"]

\* variant: _read_variables gets a new dict instead of units
run_body_NewUnits ==
    << [target |-> "model_orig", call |-> "read_from_file", args |-> <<"filename", "model">>],
       [target |-> "", call |-> "read_format", args |-> <<"model_orig", "model">>],
       [target |-> "", call |-> "read_metadata", args |-> <<"model_orig", "model">>],
       [target |-> "units", call |-> "read_units", args |-> <<"model_orig", "model">>],
       [target |-> "", call |-> "read_parameters", args |-> <<"model_orig", "model", "units">>],
       [target |-> "", call |-> "read_variables", args |-> <<"model_orig", "model", "empty">>] >>

\* lines 38-43: target = self._call(args...), one statement after the other
run_body ==
    << [target |-> "model_orig", call |-> "read_from_file", args |-> <<"filename", "model">>],
       [target |-> "", call |-> "read_format", args |-> <<"model_orig", "model">>],
       [target |-> "", call |-> "read_metadata", args |-> <<"model_orig", "model">>],
       [target |-> "units", call |-> "read_units", args |-> <<"model_orig", "model">>],
       [target |-> "", call |-> "read_parameters", args |-> <<"model_orig", "model", "units">>],
       [target |-> "", call |-> "read_variables", args |-> <<"model_orig", "model", "units">>] >>

\* the place of the statement that calls the method
Statement(call) == CHOOSE i \in DOMAIN run_body : run_body[i].call = call

\* variant: a statement that raised is run again
AfterCall_Again(call, result) ==
    IF Raised(result) THEN call
    ELSE IF Statement(call) = Len(run_body) THEN "return"
    ELSE run_body[Statement(call) + 1].call

\* where run is after the statement that calls the method: no statement of run
\* is inside a try, so an exception ends run
AfterCall(call, result) ==
    IF Raised(result) THEN "raised"
    ELSE IF Statement(call) = Len(run_body) THEN "return"
    ELSE run_body[Statement(call) + 1].call

\* self._<call>(argv...) of the SBML reader, on the Biomodel model
CallMethod(call, fs, argv, model) ==
    CASE call = "read_from_file" -> read_from_file(fs, argv[1], model)
      [] call = "read_format" -> read_format(argv[1], model)
      [] call = "read_metadata" -> read_metadata(argv[1], model)
      [] call = "read_units" -> read_units(argv[1], model)
      [] call = "read_parameters" -> read_parameters(argv[1], model, argv[3])
      [] call = "read_variables" -> read_variables(argv[1], model, argv[3])

\* what the method logs while it runs
MethodLog(call, argv, model) ==
    CASE call = "read_units" -> read_units_log(argv[1])
      [] call = "read_parameters" ->
             read_parameters_log(collected_items(argv[1], model, argv[3]))
      [] call = "read_variables" -> read_variables_log(argv[1], argv[3])
      [] OTHER -> <<>>

Filenames == {"model.xml"}

\* run(filename) is called: self._filename = filename; model = Biomodel()
InitRun ==
    /\ pc = run_body[1].call
    /\ cls = "SbmlBiomodelReader"
    /\ json \in FileSystems
    /\ obj = Biomodel
    /\ \E filename \in Filenames :
           other = [filename |-> filename, model |-> ModelRef, model_orig |-> None,
                    units |-> None, empty |-> ItemsDict(<<>>), calls |-> <<>>,
                    log |-> <<>>]
    /\ ret = None

\* the statement has called its method with argv: the call has changed the
\* Biomodel and logged, and its result is assigned to the target unless it is
\* an exception
Assign(statement, argv, outcome, log) ==
    LET called == [other EXCEPT !.calls = Append(@, [call |-> pc, args |-> argv]),
                                !.log = @ \o log]
    IN /\ obj' = outcome.model
       /\ other' = IF Raised(outcome.ret) \/ statement.target = "" THEN called
                   ELSE [called EXCEPT ![statement.target] = outcome.ret]
       /\ ret' = IF Raised(outcome.ret) THEN outcome.ret ELSE ret
       /\ pc' = AfterCall(pc, outcome.ret)

\* the next statement of lines 38-43
CallStage ==
    /\ pc \in {run_body[i].call : i \in DOMAIN run_body}
    /\ LET statement == run_body[Statement(pc)]
           argv == [i \in DOMAIN statement.args |-> other[statement.args[i]]]
       IN Assign(statement, argv, CallMethod(pc, json, argv, obj), MethodLog(pc, argv, obj))
    /\ UNCHANGED <<cls, json>>

\* return model
Return ==
    /\ pc = "return"
    /\ ret' = other.model
    /\ pc' = "returned"
    /\ UNCHANGED <<cls, obj, other, json>>

NextRun == CallStage \/ Return

SpecRun == InitRun /\ [][NextRun]_vars
(***************************************************************************)
(* Claims about the SBML reader                                            *)
(***************************************************************************)
\* the names of the methods run has called, in the order of the calls
Called == [i \in DOMAIN other.calls |-> other.calls[i].call]

\* _read_parameters has returned: model.parameters is what it assigned
ParametersRead == obj.parameters.cls = "dict_values"

\* _read_metadata has returned or raised
MetadataCalled == Len(other.calls) >= 3

\* C11: every parameter in model.parameters, whatever its source, has the
\* recommended range [0, 10] when its value is zero and [value / 10,
\* value * 10] otherwise
C11_RangeOfEveryParameter ==
    ParametersRead =>
        \A i \in DOMAIN obj.parameters.items :
            LET parameter == obj.parameters.items[i]
                value == parameter.value.n
            IN parameter.recommended_range =
                   IF value = 0 THEN PyList(<<Float(0), Float(10)>>)
                   ELSE PyList(<<Num(FloatDiv(value, FloatOf(10))),
                                 Num(FloatMul(value, FloatOf(10)))>>)

\* the packages of the model that stand for a modeling framework
FrameworkPackages == other.model_orig.plugins \cap {"fbc", "multi", "qual"}

Ambiguous ==
    /\ pc = "raised"
    /\ Called[Len(Called)] = "read_metadata"
    /\ ret = RaiseMsg("BiomodelIoError", "Unable to determine modeling framework")
    /\ obj.framework = None

FrameworkOf(package) ==
    CASE package = "fbc" -> "flux_balance"
      [] package = "multi" -> "non_spatial_discrete"
      [] package = "qual" -> "logical"

\* what C12 says of a model with these framework packages
FrameworkAsDeclared ==
    /\ Cardinality(FrameworkPackages) >= 2 => Ambiguous
    /\ \A package \in FrameworkPackages :
           FrameworkPackages = {package} =>
               obj.framework = BiomodelingFramework(FrameworkOf(package))
    /\ FrameworkPackages = {} => obj.framework = BiomodelingFramework("non_spatial_continuous")

UsesComp ==
    /\ "comp" \in other.model_orig.plugins
    /\ other.model_orig.numModelDefinitions > 0 \/ other.model_orig.numSubmodels > 0

StageOrder ==
    <<"read_from_file", "read_format", "read_metadata", "read_units", "read_parameters",
      "read_variables">>

\* C13: run calls the six stages once each in the order read-file, read-format,
\* read-metadata, read-units, read-parameters, read-variables, each after the
\* one before has returned; every stage gets the Model object that run
\* returns, and read-parameters and read-variables get the units map that
\* read-units returned
C13_StagesInOrder ==
    /\ Called = SubSeq(StageOrder, 1, Len(Called))
    /\ \A i \in DOMAIN other.calls : other.calls[i].args[2] = ModelRef
    /\ \A i \in DOMAIN other.calls :
           Called[i] \in {"read_parameters", "read_variables"} =>
               /\ other.calls[i].args[3] = other.units
               /\ other.units = read_units(other.model_orig, obj).ret
    /\ pc = "returned" => Called = StageOrder /\ ret = ModelRef
    /\ pc = "return" => Called = StageOrder

\* run has returned the model of a file with a unit definition after six calls
C13_Witness ==
    /\ pc = "returned"
    /\ Len(other.calls) = 6
    /\ other.units.items # <<>>
    /\ other.calls[6].args = <<other.model_orig, ModelRef, other.units>>
    /\ obj.variables.items # <<>>

\* the file run is asked to read is missing or has no model
NoModelInFile == other.filename \notin DOMAIN json \/ json[other.filename].model = None

\* C14: when the file is missing or has no model, read-file raises, no later
\* stage is called and no Model is returned; an exception raised in any stage
\* ends run: no later stage is called, no stage is called again, nothing is
\* returned
C14_ErrorEndsRun ==
    /\ NoModelInFile /\ other.calls # <<>> =>
           /\ Called = <<"read_from_file">>
           /\ pc = "raised"
           /\ ret.cls = "raise" /\ ret.exc = "ValueError"
    /\ Raised(ret) =>
           /\ pc = "raised"
           /\ Called = SubSeq(StageOrder, 1, Len(Called))
    /\ pc = "raised" => Raised(ret) /\ ~ENABLED NextRun

\* read-file has raised for a missing file and run is over after this one call
C14_Witness ==
    /\ pc = "raised"
    /\ other.filename \notin DOMAIN json
    /\ ret = RaiseMsg("ValueError", "does not exist")
    /\ Called = <<"read_from_file">>
    /\ obj = Biomodel
\* the dict parameters as it is before the two removal loops
Collected == collect_parameters(other.model_orig, obj, other.units)

\* the keys the removal loops look for: the variables of the scalar rules and
\* the symbols of the initial assignments
ComputedIds ==
    {Str(other.model_orig.rules[i].variable) :
        i \in {j \in DOMAIN other.model_orig.rules : other.model_orig.rules[j].isScalar}}
    \cup {Str(other.model_orig.initialAssignments[i].symbol) :
            i \in DOMAIN other.model_orig.initialAssignments}

\* C15: after read-parameters, model.parameters has no entry collected under
\* the variable of a scalar assignment rule or the symbol of an initial
\* assignment and has every other collected entry, and it is the same
\* whichever of the two removal loops runs first
C15_ComputedParametersRemoved ==
    ParametersRead =>
        LET Free(item) == item[1] \notin ComputedIds
        IN /\ obj.parameters.items = DictValues(SelectSeq(Collected, Free))
           /\ remove_initial_assignment_symbols(
                  remove_rule_variables(Collected, other.model_orig), other.model_orig)
              = remove_rule_variables(
                  remove_initial_assignment_symbols(Collected, other.model_orig),
                  other.model_orig)

\* read-parameters has removed one entry for a rule and another for an initial
\* assignment, and has kept an entry
C15_Witness ==
    /\ ParametersRead
    /\ Str("s1") \in DictKeys(Collected) /\ Str("k1") \in DictKeys(Collected)
    /\ \E i \in DOMAIN other.model_orig.rules :
           other.model_orig.rules[i] = Rule(TRUE, "s1", Math("AST_TIMES", 0))
    /\ \E i \in DOMAIN other.model_orig.initialAssignments :
           other.model_orig.initialAssignments[i].symbol = "k1"
    /\ Len(obj.parameters.items) = Len(Collected) - 2
    /\ obj.parameters.items # <<>>

\* no two elements of the sequence have the same id
DistinctIds(elements) ==
    \A i, j \in DOMAIN elements : elements[i].id = elements[j].id => i = j

\* the ids of the elements of the SBML model are unique within their lists
UniqueWithinLists(model_sbml) ==
    /\ DistinctIds(model_sbml.parameters)
    /\ DistinctIds(model_sbml.reactions)
    /\ DistinctIds(model_sbml.compartments)
    /\ DistinctIds(model_sbml.species)
    /\ DistinctIds(model_sbml.qualitativeSpecies)
    /\ \A i \in DOMAIN model_sbml.reactions :
           Truthy(model_sbml.reactions[i].kineticLaw) =>
               DistinctIds(model_sbml.reactions[i].kineticLaw.parameters)

\* C16: in every Model the reader returns for an SBML model whose element ids
\* are unique within their own lists, no two parameters have the same id and
\* no two variables have the same id
C16_UniqueIds ==
    pc = "returned" /\ UniqueWithinLists(other.model_orig) =>
        DistinctIds(obj.parameters.items) /\ DistinctIds(obj.variables.items)

\* the parameters of model.parameters of that group
OfGroup(group) ==
    LET InGroup(parameter) == parameter.group = Str(group)
    IN SelectSeq(obj.parameters.items, InGroup)

\* C17: for an fbc model whose active objective has n flux objectives,
\* model.parameters has n flux-objective coefficients, one for each flux
\* objective with the id objectiveId/reactionId, and every parameter collected
\* for the initial amount or concentration of a species
C17_FluxObjectiveParameters ==
    ParametersRead /\ "fbc" \in other.model_orig.plugins =>
        LET objective == other.model_orig.activeObjective
            species == SelectSeq(other.model_orig.species, HasInitialValue)
        IN /\ Len(OfGroup("Flux objective coefficients")) = Len(objective.fluxObjectives)
           /\ \A i \in DOMAIN objective.fluxObjectives :
                  \E j \in DOMAIN obj.parameters.items :
                      obj.parameters.items[j].id =
                          Str(objective.id \o "/" \o objective.fluxObjectives[i].reaction)
           /\ Len(OfGroup("Initial species amounts/concentrations")) = Len(species)

\* the rdf:li of the only hasTaxon/Bag/li chain of the annotation, or None
TaxonLi ==
    get_xml_child_by_names(other.model_orig.annotation,
        <<XmlName("rdf", "RDF"), XmlName("rdf", "Description"), XmlName("bqbiol", "hasTaxon"),
          XmlName("rdf", "Bag"), XmlName("rdf", "li")>>)

\* the rdf:resource attributes of the li
Resources(li) ==
    LET IsResource(attr) == attr.prefix = "rdf" /\ attr.name = "resource"
    IN SelectSeq(li.attrs, IsResource)

\* the taxon C18 expects for the annotation
ExpectedTaxon ==
    IF TaxonLi = None THEN None
    ELSE IF Resources(TaxonLi) = <<>> THEN None
    ELSE LET digits == TaxonomyMatch(Resources(TaxonLi)[1].value)
         IN IF digits = <<>> \/ IntOf(digits) \notin DOMAIN NcbiTaxa THEN None
            ELSE Taxon(Num(IntOf(digits)), Str(NcbiTaxa[IntOf(digits)]))

\* C18: read-metadata never fails because of the taxon annotation: an exception
\* it raises is the BiomodelIoError of the packages, and when it returns,
\* model.taxon is the taxon of the only hasTaxon/Bag/li chain whose
\* rdf:resource matches identifiers.org/taxonomy/<digits> and is known to the
\* taxonomy database, and None in every other case
C18_TaxonNeverFails ==
    MetadataCalled =>
        IF pc = "raised" /\ Called[Len(Called)] = "read_metadata"
        THEN ret.exc = "BiomodelIoError"
        ELSE obj.taxon = ExpectedTaxon
(***************************************************************************)
(* write_simulation and read_simulation (simulation/__init__.py)           *)
(*                                                                         *)
(* The file system fs is a function from paths to documents.  The SED-ML   *)
(* writer and reader of the module sedml are modelled by what the          *)
(* specification says of them: the writer checks that the simulation is    *)
(* tagged as SED-ML of the requested level and version before it writes.   *)
(***************************************************************************)
\* SimulationFormat.sedml, SimulationFormat.sessl
SimulationFormat(name) == [cls |-> "SimulationFormat", name |-> name]

\* Format(name=..., version=...)
Format(name, version) == [cls |-> "Format", id |-> None, name |-> name, version |-> version]

\* SedMlSimulationWriter().run(sim, filename, visualization=visualization,
\* level=level, version=version): the file system it leaves and what it
\* returns or raises
SedMlSimulationWriter_run(fs, sim, filename, visualization, level, version) ==
    IF sim.format # Format(Str("SED-ML"), Str(LevelVersion(level, version))) THEN
        [fs |-> fs, ret |-> RaiseMsg("ValueError", "Format must be SED-ML")]
    ELSE [fs |-> [f \in DOMAIN fs \cup {filename} |->
                     IF f = filename THEN [sim |-> sim, visualization |-> visualization]
                     ELSE fs[f]],
          ret |-> None]

\* SedMlSimulationReader().run(filename): (simulations, visualization)
SedMlSimulationReader_run(fs, filename) ==
    IF filename \notin DOMAIN fs THEN RaiseMsg("SimulationIoError", "unable to read")
    ELSE PyTuple(<<PyList(<<fs[filename].sim>>), fs[filename].visualization>>)

\* raise NotImplementedError(...) of lines 32 and 55
NotSupported(format) ==
    RaiseMsg("NotImplementedError",
             "Simulation experiment format " \o format.name \o " is not supported")

\* io is the file system fs, the classes constructed so far and the run
\* methods called so far with their arguments; the result adds what the
\* function returns or raises

\* variant: the writer runs before the requested format is looked at
write_simulation_WriterFirst(io, sim, filename, format, visualization, format_opts) ==
    LET out == SedMlSimulationWriter_run(io.fs, sim, filename, visualization,
                                         format_opts.level, format_opts.version)
    IN [fs |-> out.fs,
        constructed |-> Append(io.constructed, "SedMlSimulationWriter"),
        runs |-> Append(io.runs, <<sim, filename, visualization, format_opts>>),
        ret |-> IF Raised(out.ret) \/ format = SimulationFormat("sedml") THEN out.ret
                ELSE NotSupported(format)]

write_simulation(io, sim, filename, format, visualization, format_opts) ==
    IF format = SimulationFormat("sedml") THEN
        LET out == SedMlSimulationWriter_run(io.fs, sim, filename, visualization,
                                             format_opts.level, format_opts.version)
        IN [fs |-> out.fs,
            constructed |-> Append(io.constructed, "SedMlSimulationWriter"),
            runs |-> Append(io.runs, <<sim, filename, visualization, format_opts>>),
            ret |-> out.ret]
    ELSE [fs |-> io.fs, constructed |-> io.constructed, runs |-> io.runs,
          ret |-> NotSupported(format)]

\* variant: every format is read as SED-ML
read_simulation_AnyFormat(io, filename, format) ==
    [fs |-> io.fs,
     constructed |-> Append(io.constructed, "SedMlSimulationReader"),
     runs |-> Append(io.runs, <<filename>>),
     ret |-> SedMlSimulationReader_run(io.fs, filename)]

read_simulation(io, filename, format) ==
    IF format = SimulationFormat("sedml") THEN
        [fs |-> io.fs,
         constructed |-> Append(io.constructed, "SedMlSimulationReader"),
         runs |-> Append(io.runs, <<filename>>),
         ret |-> SedMlSimulationReader_run(io.fs, filename)]
    ELSE [fs |-> io.fs, constructed |-> io.constructed, runs |-> io.runs,
          ret |-> NotSupported(format)]

\* the versions of SED-ML level 1 a simulation is tagged with or written as
MaxVersion == 3

SimulationFormats == {SimulationFormat("sedml"), SimulationFormat("sessl")}

\* TimecourseSimulation(model=Biomodel(format=Format(name='SBML')), format=format)
SimulationOfFormat(format) ==
    WithTimes(Simulation("TimecourseSimulation", None, None, None, None, None, None, None,
                         None, None, format,
                         [Biomodel EXCEPT !.format = Format(Str("SBML"), None)],
                         None, None, None),
              None, None, None, None)

SimulationsToWrite ==
    {SimulationOfFormat(format) :
        format \in {None, Format(Str("SESSL"), None), Format(Str("SED-ML"), None)}
                   \cup {Format(Str("SED-ML"), Str(LevelVersion(1, version))) :
                            version \in 1..MaxVersion}}

SimulationFilenames == {"simulation.sedml", "other.sedml"}

SimulationFileSystems ==
    {<<>>}
    \cup {[f \in {"simulation.sedml"} |-> [sim |-> sim, visualization |-> None]] :
            sim \in {SimulationOfFormat(Format(Str("SED-ML"), Str(LevelVersion(1, 1))))}}

\* write_simulation(sim, filename, format, level=1, version=version) or
\* read_simulation(filename, format) is called
InitSimulationIo ==
    /\ pc = "call"
    /\ cls \in {"write_simulation", "read_simulation"}
    /\ \E filename \in SimulationFilenames, format \in SimulationFormats :
           \/ /\ cls = "write_simulation"
              /\ \E sim \in SimulationsToWrite, version \in 1..MaxVersion :
                     obj = [sim |-> sim, filename |-> filename, format |-> format,
                            visualization |-> None,
                            format_opts |-> [level |-> 1, version |-> version]]
           \/ /\ cls = "read_simulation"
              /\ obj = [filename |-> filename, format |-> format]
    /\ json \in SimulationFileSystems
    /\ other = [constructed |-> <<>>, runs |-> <<>>]
    /\ ret = None

WriteSimulation ==
    /\ pc = "call"
    /\ cls = "write_simulation"
    /\ LET io == write_simulation([fs |-> json, constructed |-> other.constructed,
                                   runs |-> other.runs],
                                  obj.sim, obj.filename, obj.format, obj.visualization,
                                  obj.format_opts)
       IN /\ json' = io.fs
          /\ other' = [constructed |-> io.constructed, runs |-> io.runs]
          /\ ret' = io.ret
    /\ pc' = "done"
    /\ UNCHANGED <<cls, obj>>

ReadSimulation ==
    /\ pc = "call"
    /\ cls = "read_simulation"
    /\ LET io == read_simulation([fs |-> json, constructed |-> other.constructed,
                                  runs |-> other.runs], obj.filename, obj.format)
       IN /\ json' = io.fs
          /\ other' = [constructed |-> io.constructed, runs |-> io.runs]
          /\ ret' = io.ret
    /\ pc' = "done"
    /\ UNCHANGED <<cls, obj>>

NextSimulationIo == WriteSimulation \/ ReadSimulation

SpecSimulationIo == InitSimulationIo /\ [][NextSimulationIo]_vars
(***************************************************************************)
(* Claims about write_simulation and read_simulation                       *)
(***************************************************************************)
\* the class that writes or reads SED-ML for the function called
SedMlClass ==
    IF cls = "write_simulation" THEN "SedMlSimulationWriter" ELSE "SedMlSimulationReader"

\* what the run method of that class returns or raises for the arguments
SedMlResult ==
    IF cls = "write_simulation"
    THEN SedMlSimulationWriter_run(json, obj.sim, obj.filename, obj.visualization,
                                   obj.format_opts.level, obj.format_opts.version).ret
    ELSE SedMlSimulationReader_run(json, obj.filename)

\* C19: write_simulation and read_simulation called with a format other than
\* SED-ML raise NotImplementedError ('... is not supported') with no writer or
\* reader constructed or run and no file written; called with SED-ML they
\* construct the SED-ML writer or reader, call its run once and return what it
\* returns
C19_OnlySedMl ==
    [][IF obj.format # SimulationFormat("sedml") THEN
           /\ ret' = RaiseMsg("NotImplementedError",
                              "Simulation experiment format sessl is not supported")
           /\ other' = [constructed |-> <<>>, runs |-> <<>>]
           /\ json' = json
       ELSE
           /\ other'.constructed = <<SedMlClass>>
           /\ Len(other'.runs) = 1
           /\ ret' = SedMlResult]_vars

\* write_simulation has been asked for SESSL: it has raised, with nothing
\* constructed; read_simulation has been asked for SED-ML: the reader has run
C19_Witness ==
    /\ pc = "done"
    /\ \/ /\ cls = "write_simulation"
          /\ obj.format = SimulationFormat("sessl")
          /\ ret.cls = "raise" /\ ret.exc = "NotImplementedError"
          /\ other.constructed = <<>>
       \/ /\ cls = "read_simulation"
          /\ obj.format = SimulationFormat("sedml")
          /\ other.constructed = <<"SedMlSimulationReader">>
          /\ ret.cls = "tuple"

\* the simulation is tagged as SED-ML of the level and version to write
TaggedAsRequested ==
    /\ obj.sim.format.cls = "Format"
    /\ obj.sim.format.name = Str("SED-ML")
    /\ obj.sim.format.version =
           Str(LevelVersion(obj.format_opts.level, obj.format_opts.version))

\* C20: writing with the requested format SED-ML a simulation that is not
\* tagged as SED-ML of the requested level and version raises the ValueError
\* 'Format must be SED-ML' and writes nothing; requesting SESSL for the same
\* simulation raises the NotImplementedError of the requested format instead
C20_FormatMismatch ==
    [][cls = "write_simulation" /\ ~TaggedAsRequested =>
           /\ json' = json
           /\ ret' = IF obj.format = SimulationFormat("sedml")
                     THEN RaiseMsg("ValueError", "Format must be SED-ML")
                     ELSE NotSupported(obj.format)]_vars

\* a simulation tagged SED-ML L1V2 has been refused when L1V3 was requested
C20_Witness ==
    /\ pc = "done"
    /\ cls = "write_simulation"
    /\ obj.format = SimulationFormat("sedml")
    /\ obj.sim.format = Format(Str("SED-ML"), Str("L1V2"))
    /\ obj.format_opts = [level |-> 1, version |-> 3]
    /\ ret = RaiseMsg("ValueError", "Format must be SED-ML")
    /\ obj.filename \notin DOMAIN json
(***************************************************************************)
(* Claims about units that cannot be resolved                              *)
(***************************************************************************)
\* run has ended: it has returned or an exception has left it
RunEnded == pc \in {"raised", "returned"}

\* the elements the model refers to exist, and a model of fbc has an active
\* objective with an id
ReferencesResolve(model_sbml) ==
    /\ \A i \in DOMAIN model_sbml.species :
           /\ model_sbml.species[i].id # ""
           /\ Truthy(get_compartment(model_sbml, model_sbml.species[i].compartment))
    /\ \A i \in DOMAIN model_sbml.initialAssignments :
           Truthy(getElementBySId(model_sbml, model_sbml.initialAssignments[i].symbol))
    /\ \A i \in DOMAIN model_sbml.rules :
           Truthy(getElementBySId(model_sbml, model_sbml.rules[i].variable))
    /\ "fbc" \in model_sbml.plugins =>
           /\ Truthy(model_sbml.activeObjective)
           /\ model_sbml.activeObjective.id # ""
           /\ \A i \in DOMAIN model_sbml.activeObjective.fluxObjectives :
                  Truthy(get_reaction(model_sbml,
                                      model_sbml.activeObjective.fluxObjectives[i].reaction))

\* the reader has recorded units it could not resolve
AnomalyRecorded == other.log # <<>>

\* C21: units that cannot be resolved never abort reading: once the reader
\* has recorded such units (substance units of a species, extent or time
\* units of a model of fbc, a unit definition that cannot be determined), run
\* goes on and returns the Model
C21_UnitsNeverAbort ==
    (RunEnded /\ AnomalyRecorded /\ ReferencesResolve(other.model_orig)) =>
        (pc = "returned" /\ ret = other.model)

\* the run C21 fails on: units recorded as unresolved, then the
\* UnboundLocalError of the flux objectives
C21_AbortAfterAnomaly ==
    /\ pc = "raised"
    /\ AnomalyRecorded
    /\ ReferencesResolve(other.model_orig)
    /\ ret = UnboundLocalError
(***************************************************************************)
(* visualize_biomodel (biomodel/sbml.py)                                   *)
(*                                                                         *)
(* json is the file system, obj the arguments of the calls, other the      *)
(* requests sent to MINERVA and the reads of the model file so far, ret    *)
(* the value the last call returned or the exception it raised.            *)
(***************************************************************************)
\* most layouts of a model
MaxLayouts == 3

\* most units of a unit definition
MaxUnits == 2

\* most calls of visualize_biomodel in a behaviour
MaxCalls == 3

\* a path: os.path.basename is its name
FilePath(dir, name) == [dir |-> dir, name |-> name]

basename(path) == path.name

\* os.path.isfile
isfile(fs, path) == path \in DOMAIN fs.files

\* plugin.removeLayout(n): the n-th layout, counted from 0, is taken out of
\* the list; nothing happens when the list has no n-th layout
removeLayout(layouts, n) ==
    IF n >= Len(layouts) THEN layouts
    ELSE SubSeq(layouts, 1, n) \o SubSeq(layouts, n + 2, Len(layouts))

\* the loop of lines 843-844 from i_layout on, over range(num)
RECURSIVE remove_layouts_from(_, _, _)
remove_layouts_from(layouts, i_layout, num) ==
    IF i_layout >= num THEN layouts
    ELSE remove_layouts_from(removeLayout(layouts, i_layout), i_layout + 1, num)

\* lines 840-844; getPlugin gives None for a package the model does not use
remove_layouts(model) ==
    IF "layout" \in model.plugins
    THEN [model EXCEPT !.layouts = remove_layouts_from(@, 0, Len(@))]
    ELSE model

\* lines 851-855: the unit the loop creates
DimensionlessUnit == [kind |-> "UNIT_KIND_DIMENSIONLESS", exponent |-> 0, multiplier |-> 1, scale |-> 0]

\* lines 849-850: removeUnit(0), once for each unit
RECURSIVE remove_all_units(_, _)
remove_all_units(units, times) ==
    IF times = 0 THEN units
    ELSE remove_all_units(IF units = <<>> THEN units ELSE Tail(units), times - 1)

\* lines 847-855
remove_units(model) ==
    [model EXCEPT !.unitDefinitions =
        [i \in DOMAIN @ |->
            [@[i] EXCEPT !.units = Append(remove_all_units(@, Len(@)), DimensionlessUnit)]]]

\* libsbml.writeSBMLToString(doc)
writeSBMLToString(doc) == [cls |-> "str", document |-> doc]

\* corrected_model.encode('utf-8')
encode(string) == [cls |-> "bytes", document |-> string.document]

\* requests: raise_for_status raises HTTPError for the client and server
\* errors, 400 to 599, and for no other status
raise_for_status(response) ==
    IF response.status_code >= 400 /\ response.status_code < 600
    THEN RaiseMsg("requests.exceptions.HTTPError", response.reason)
    ELSE None

\* the module requests, and a session of it
RequestsModule == [cls |-> "module", name |-> "requests"]

Session == [cls |-> "requests.Session", name |-> "session"]

\* lines 861-866
MinervaRequest(requests_session, corrected_model) ==
    [session |-> IF requests_session = None THEN RequestsModule ELSE requests_session,
     method |-> "post",
     url |-> "https://minerva-dev.lcsb.uni.lu/minerva/api/convert/image/SBML:png",
     headers |-> <<"Content-Type", "application/sbml+xml; charset=utf-8">>,
     data |-> encode(corrected_model)]

\* '... {}'.format(response.content) of bytes
BytesRepr(content) == "b'" \o content \o "'"

\* utils.crop_image(img_filename, background_to_transparent=[255, 255, 255])
\* when it does not raise: the image is cut to its content and written back
\* to the file
crop_image(file) == [file EXCEPT !.cropped = TRUE, !.size = @ - 1]

\* os.path.getsize
getsize(file) == file.size

\* lines 873-874: open(img_filename, 'wb') and file.write(response.content)
write_file(fs, path, content) ==
    [fs EXCEPT !.files =
        [p \in DOMAIN @ \cup {path} |->
            IF p = path THEN [content |-> content.body, size |-> content.size, cropped |-> FALSE]
            ELSE @[p]]]

\* line 877
RemoteFileOf(fs, img_filename) ==
    RemoteFile(Str(basename(img_filename)), Str("image/png"), Num(getsize(fs.files[img_filename])))

\* what a call leaves behind: the file system, the request it sent with the
\* response to it, whether it read the model file, and the value returned or
\* the exception raised
Visualized(fs, sent, read, result) == [fs |-> fs, sent |-> sent, read |-> read, ret |-> result]

\* lines 873-875 for a response that is no error: crop_image works on the
\* file that was written, and crops it or raises
save_image(fs, args, sent, response, crops) ==
    LET written == write_file(fs, args.img_filename, response.content)
        cropped == [written EXCEPT !.files[args.img_filename] = crop_image(@)]
    IN IF args.img_filename.dir \notin fs.dirs
       THEN Visualized(fs, sent, TRUE, RaiseMsg("FileNotFoundError", "No such file or directory"))
       ELSE IF ~crops
       THEN Visualized(written, sent, TRUE, RaiseMsg("OSError", "cannot identify image file"))
       ELSE Visualized(cropped, sent, TRUE, RemoteFileOf(cropped, args.img_filename))

\* lines 867-872
ImageError(model_filename, response) ==
    RaiseMsg("BiomodelIoError",
             "Unable to generate image for " \o basename(model_filename)
             \o ": " \o BytesRepr(response.content.body))

\* variant: the image file is written before the status of the response is looked at
generate_image_WriteFirst(fs, args, doc, response, crops) ==
    LET request == MinervaRequest(args.requests_session, writeSBMLToString(doc))
        sent == << [request |-> request, response |-> response] >>
        saved == save_image(fs, args, sent, response, crops)
    IN IF Raised(raise_for_status(response))
       THEN Visualized(saved.fs, sent, TRUE, ImageError(args.model_filename, response))
       ELSE saved

\* lines 857-875 for the document doc that was made of the model file, and the
\* response MINERVA gives
generate_image(fs, args, doc, response, crops) ==
    LET request == MinervaRequest(args.requests_session, writeSBMLToString(doc))
        sent == << [request |-> request, response |-> response] >>
    IN IF Raised(raise_for_status(response))
       THEN Visualized(fs, sent, TRUE, ImageError(args.model_filename, response))
       ELSE save_image(fs, args, sent, response, crops)

\* lines 836-855: the document read from the model file, without its layouts
\* and units; doc.getModel() is None for a file libsbml finds no model in
corrected_document(fs, args) ==
    LET model == fs.files[args.model_filename].model
        no_layouts == IF args.remove_layouts THEN remove_layouts(model) ELSE model
    IN IF args.remove_units THEN remove_units(no_layouts) ELSE no_layouts

\* variant: the image is made again although the file is there
visualize_biomodel_Again(fs, args, response, crops) ==
    IF fs.files[args.model_filename].model = None
       /\ (args.remove_layouts \/ args.remove_units)
    THEN Visualized(fs, <<>>, TRUE, AttributeError)
    ELSE generate_image(fs, args, corrected_document(fs, args), response, crops)

\* lines 818-877
visualize_biomodel(fs, args, response, crops) ==
    IF isfile(fs, args.img_filename)
    THEN Visualized(fs, <<>>, FALSE, RemoteFileOf(fs, args.img_filename))
    ELSE IF fs.files[args.model_filename].model = None
            /\ (args.remove_layouts \/ args.remove_units)
    THEN Visualized(fs, <<>>, TRUE, AttributeError)
    ELSE generate_image(fs, args, corrected_document(fs, args), response, crops)
\* the layouts layout1 .. layoutn
LayoutList(n) == [i \in 1..n |-> [cls |-> "libsbml.Layout", id |-> "layout" \o IntStr(i)]]

\* a unit definition of n units
UnitList(n) ==
    [i \in 1..n |-> [kind |-> IF i = 1 THEN "UNIT_KIND_MOLE" ELSE "UNIT_KIND_LITRE",
                     exponent |-> IF i = 1 THEN 1 ELSE -1, multiplier |-> 1, scale |-> 0]]

UnitDefinitionLists ==
    {<<>>} \cup
    {<< [id |-> "u1", units |-> UnitList(n)], [id |-> "u2", units |-> UnitList(1)] >> :
        n \in 0..MaxUnits}

\* the models of the model files: with n layouts, or without the layout package
VisualizedModels ==
    {[cls |-> "libsbml.Model", plugins |-> IF n < 0 THEN {} ELSE {"layout"},
      layouts |-> IF n < 0 THEN <<>> ELSE LayoutList(n),
      unitDefinitions |-> unitDefinitions] :
        n \in -1..MaxLayouts, unitDefinitions \in UnitDefinitionLists}

ModelFile == FilePath("in", "model.xml")

ImageFile == FilePath("out", "model.png")

\* an image written by an earlier run
OldImage == [content |-> "old png", size |-> 7, cropped |-> TRUE]

\* the file systems of the calls: the model file, the directory of the image
\* or not, and in it the image or not
VisualizeFileSystems ==
    {[dirs |-> dirs,
      files |-> [p \in {ModelFile} \cup images |->
                    IF p = ModelFile THEN [model |-> model] ELSE OldImage]] :
        model \in VisualizedModels \cup {None},
        dirs \in {{"in"}, {"in", "out"}},
        images \in {{}, {ImageFile}}}

\* the responses of MINERVA
Responses ==
    { [status_code |-> 200, reason |-> "OK", content |-> [body |-> "png", size |-> 9]],
      [status_code |-> 300, reason |-> "Multiple Choices",
       content |-> [body |-> "choices", size |-> 5]],
      [status_code |-> 404, reason |-> "Not Found", content |-> [body |-> "not found", size |-> 4]],
      [status_code |-> 500, reason |-> "Internal Server Error",
       content |-> [body |-> "failed", size |-> 6]] }

InitVisualize ==
    /\ pc = "call"
    /\ cls = "visualize_biomodel"
    /\ json \in {fs \in VisualizeFileSystems : ImageFile \in DOMAIN fs.files => "out" \in fs.dirs}
    /\ obj \in [model_filename : {ModelFile}, img_filename : {ImageFile},
                requests_session : {None, Session},
                remove_layouts : BOOLEAN, remove_units : BOOLEAN]
    /\ other = [requests |-> <<>>, reads |-> 0, calls |-> 0]
    /\ ret = None

\* the call has run
EndCall(visualized) ==
    /\ json' = visualized.fs
    /\ other' = [other EXCEPT !.requests = @ \o visualized.sent,
                              !.reads = @ + (IF visualized.read THEN 1 ELSE 0),
                              !.calls = @ + 1]
    /\ ret' = visualized.ret
    /\ pc' = IF Raised(visualized.ret) THEN "raised" ELSE "returned"
    /\ UNCHANGED <<cls, obj>>

\* visualize_biomodel is called; MINERVA answers the request with response,
\* and crop_image crops what is saved or raises
CallVisualize ==
    /\ other.calls < MaxCalls
    /\ \E response \in Responses, crops \in BOOLEAN :
           EndCall(visualize_biomodel(json, obj, response, crops))

NextVisualize == CallVisualize

SpecVisualize == InitVisualize /\ [][NextVisualize]_vars
(***************************************************************************)
(* Claims about visualize_biomodel                                         *)
(***************************************************************************)
\* the call of this step has sent a request
RequestSent == Len(other'.requests) = Len(other.requests) + 1

\* the response to the last request
LastResponse == other.requests[Len(other.requests)].response

\* the status of a client or server error
IsHttpError(response) == response.status_code \in 400..599

\* a status other than 2xx
IsNot2xx(response) == response.status_code \notin 200..299

\* the error the claim tells of, with the body of the response in its message
ErrorOf(response) ==
    RaiseMsg("BiomodelIoError",
             "Unable to generate image for model.xml: b'" \o response.content.body \o "'")

\* a call that gets a failure as response raises the BiomodelIoError with the
\* body of the response and creates no image file, and the call after a call
\* that raised it sends the request again
FailureRaised(IsFailure(_)) ==
    /\ (RequestSent /\ IsFailure(LastResponse')) =>
           /\ ret' = ErrorOf(LastResponse')
           /\ ~isfile(json', obj.img_filename)
    /\ (other.requests # <<>> /\ ret = ErrorOf(LastResponse)) => RequestSent

SentModel == other.requests[Len(other.requests)].request.data.document

\* C27: with remove_layouts the model that is sent has no layouts, however
\* many the model of the file has, and with remove_units every unit
\* definition of the model that is sent is exactly one dimensionless unit
C27_LayoutsAndUnitsRemoved ==
    (other.requests # <<>> /\ SentModel # None) =>
        /\ obj.remove_layouts => SentModel.layouts = <<>>
        /\ obj.remove_units =>
               \A i \in DOMAIN SentModel.unitDefinitions :
                   SentModel.unitDefinitions[i].units = <<DimensionlessUnit>>

\* a call that finds the image file sends no request, does not read the model
\* file, leaves the file system as it is and returns the RemoteFile of the file
ExistingImageReturned ==
    isfile(json, obj.img_filename) =>
        /\ other'.requests = other.requests
        /\ other'.reads = other.reads
        /\ json' = json
        /\ ret' = RemoteFile(Str("model.png"), Str("image/png"),
                             Num(json.files[obj.img_filename].size))

\* the requests that got a 2xx response
SuccessfulRequests == {k \in DOMAIN other.requests : ~IsNot2xx(other.requests[k].response)}

\* C30 as stated: a call that finds the image file sends no request, does not
\* read the model file, does not change the image and returns the RemoteFile of
\* the file, and so the calls with one img_filename send at most one request
\* that is successful
C30_AtMostOneRequest ==
    [][ExistingImageReturned]_vars /\ [](Cardinality(SuccessfulRequests) <= 1)

\* C30: a call that finds the image file sends no request, does not read the
\* model file, does not change the image and returns the RemoteFile of the
\* file, and so the calls with one img_filename send at most one request that
\* is successful when the directory of the image file exists
C30_AtMostOneRequestSaved ==
    /\ [][ExistingImageReturned]_vars
    /\ [](obj.img_filename.dir \in json.dirs => Cardinality(SuccessfulRequests) <= 1)

\* a call has made the image with one request, and the calls after it have
\* returned the file without another request
C30_Witness ==
    /\ other.calls = MaxCalls
    /\ Len(other.requests) = 1
    /\ Cardinality(SuccessfulRequests) = 1
    /\ other.reads = 1
    /\ pc = "returned"
    /\ ret = RemoteFileOf(json, obj.img_filename)
(***************************************************************************)
(* AlgorithmParameter.sort_key and ParameterChange.sort_key                *)
(* (simulation/data_model.py)                                              *)
(*                                                                         *)
(* obj is the parameter or the change, ret the key returned for it.        *)
(***************************************************************************)
\* AlgorithmParameter(...) with and without each of its arguments
KeyedAlgorithmParameters ==
    {AlgorithmParameter(id, name, type, value, recommended_range, kisao_id) :
        id \in {None, Str("param_1"), Str("param_2")},
        name \in {None, Str("param 1")},
        type \in {None, float},
        value \in {None, Num(1)},
        recommended_range \in {None, PyList(<<>>), PyList(<<Num(0), Num(10)>>)},
        kisao_id \in {None, Str("00001")}}

\* ParameterChange(parameter=..., value=...) of an algorithm parameter or of a
\* parameter of a model
KeyedParameterChanges ==
    {ParameterChange(parameter, value) :
        parameter \in {AlgorithmParameter(Str("param_1"), Str("param 1"), float, Num(1),
                                          recommended_range, Str("00001")) :
                          recommended_range \in {None, PyList(<<Num(0), Num(10)>>)}}
                      \cup {PlainParameter(Str("p1"), Num(1))},
        value \in {None, Num(2)}}

InitSortKey ==
    /\ pc = "call"
    /\ cls \in {"AlgorithmParameter", "ParameterChange"}
    /\ obj \in IF cls = "AlgorithmParameter" THEN KeyedAlgorithmParameters
               ELSE KeyedParameterChanges
    /\ other = None
    /\ json = None
    /\ ret = None

\* ret = AlgorithmParameter.sort_key(obj)
CallParameterSortKey ==
    /\ pc = "call"
    /\ cls = "AlgorithmParameter"
    /\ ret' = AlgorithmParameter_sort_key(obj)
    /\ pc' = "returned"
    /\ UNCHANGED <<cls, obj, other, json>>

\* ret = ParameterChange.sort_key(obj)
CallChangeSortKey ==
    /\ pc = "call"
    /\ cls = "ParameterChange"
    /\ ret' = ParameterChange_sort_key(obj)
    /\ pc' = "returned"
    /\ UNCHANGED <<cls, obj, other, json>>

NextSortKey == CallParameterSortKey \/ CallChangeSortKey

SpecSortKey == InitSortKey /\ [][NextSortKey]_vars

\* the key C26 tells of: (id, name, type value, value, kisao_id)
KeyOfFive(parameter) ==
    PyTuple(<<parameter.id, parameter.name, ValueOrNone(parameter.type), parameter.value,
              parameter.kisao_id>>)

\* the parameter was made without a recommended range
NoRecommendedRange(parameter) == parameter.recommended_range = PyList(<<>>)

\* C26: the sort key of an algorithm parameter made without a recommended range
\* is the 5-tuple (id, name, type value, value, kisao_id), and the sort key of a
\* parameter change is the pair (sort key of its parameter, its value)
C26_SortKeys ==
    pc = "returned" =>
        /\ (cls = "AlgorithmParameter" /\ NoRecommendedRange(obj)) => ret = KeyOfFive(obj)
        /\ (cls = "ParameterChange" /\ obj.parameter.cls = "AlgorithmParameter"
            /\ NoRecommendedRange(obj.parameter)) =>
               ret = PyTuple(<<KeyOfFive(obj.parameter), obj.value>>)
(***************************************************************************)
(* Action and ActionErrorHandling (ci_actions/core.py)                     *)
(*                                                                         *)
(* obj is the class Action, json the requests GitHub has received with the *)
(* responses it gave, other the call made last, ret the value it returned  *)
(* or the exception it raised, pc the method called last.                  *)
(***************************************************************************)
\* most calls of the methods of Action in a behaviour
MaxOperations == 2

ISSUE_ENDPOINT(issue_number) ==
    "https://api.github.com/repos/biosimulators/Biosimulators/issues/" \o issue_number

ISSUE_COMMENTS_ENDPOINT(issue_number) == ISSUE_ENDPOINT(issue_number) \o "/comments"

ISSUE_LABELS_ENDPOINT(issue_number) == ISSUE_ENDPOINT(issue_number) \o "/labels"

\* what a call leaves behind: the requests it sent with the responses to them,
\* and the value returned or the exception raised
Requested(sent, result) == [sent |-> sent, ret |-> result]

\* self.gh_auth in a classmethod: self is the class, which has the attribute
\* only when it was set on the class; __init__ sets it on the instance
NoClassAttribute ==
    RaiseMsg("AttributeError", "type object 'Action' has no attribute 'gh_auth'")

\* response = requests.<method>(url, auth=self.gh_auth, ...) and
\* response.raise_for_status(): the arguments are evaluated before the request
\* is sent
request(self, method, url, headers, body, response) ==
    IF ~self.has_gh_auth THEN Requested(<<>>, NoClassAttribute)
    ELSE Requested(<< [method |-> method, url |-> url, headers |-> headers,
                       auth |-> self.gh_auth, json |-> body, response |-> response] >>,
                   raise_for_status(response))

\* the call returns result unless the request has raised
Returning(requested, result) ==
    IF Raised(requested.ret) THEN requested ELSE Requested(requested.sent, result)

\* lines 93-107
get_issue(self, issue_number, response) ==
    Returning(request(self, "get", ISSUE_ENDPOINT(issue_number), None, None, response),
              response.json)

\* lines 123-137: label.name of a dict raises AttributeError
get_labels_for_issue(self, issue_number, response) ==
    Returning(request(self, "get", ISSUE_LABELS_ENDPOINT(issue_number), None, None, response),
              IF response.json.cls = "list" /\ response.json.items # <<>>
              THEN RaiseMsg("AttributeError", "'dict' object has no attribute 'name'")
              ELSE PyList(<<>>))

\* lines 139-151
add_labels_to_issue(self, issue_number, labels, response) ==
    request(self, "post", ISSUE_LABELS_ENDPOINT(issue_number), None,
            [labels |-> labels], response)

\* lines 153-164
remove_label_from_issue(self, issue_number, label, response) ==
    request(self, "delete", ISSUE_LABELS_ENDPOINT(issue_number) \o "/" \o label, None,
            None, response)

\* lines 166-179
add_comment_to_issue(self, issue_number, comment, response) ==
    request(self, "post", ISSUE_COMMENTS_ENDPOINT(issue_number),
            <<"accept", "application/vnd.github.v3+json">>, [body |-> comment], response)

\* the fence of a block of code in a comment: three backquotes, written here
\* as three quotes
Fence == "'''"

\* lines 192-196, for a comment given by its lines
DiffOf(lines) == Fence \o "diff\n" \o "- " \o Join(lines, "\n- ") \o "\n" \o Fence \o "\n"

\* lines 181-197: raise ActionCaughtError(comment) after the comment is posted
add_error_comment_to_issue(self, issue_number, comment, response) ==
    Returning(add_comment_to_issue(self, issue_number, DiffOf(comment), response),
              RaiseMsg("ActionCaughtError", Join(comment, "\n")))

\* lines 199-210
close_issue(self, issue_number, response) ==
    request(self, "patch", ISSUE_ENDPOINT(issue_number), None, [state |-> "closed"], response)

\* the exceptions "except Exception" catches
IsException(raised) == raised.exc \notin {"SystemExit", "KeyboardInterrupt"}

\* lines 46-48 for the outcome of line 46: line 47, and raise of the exception
\* being handled
label_and_raise(action, issue_number, error, commented, response) ==
    IF Raised(commented.ret) THEN commented
    ELSE LET labelled == add_labels_to_issue(action, issue_number, <<"Action error">>, response)
         IN Requested(commented.sent \o labelled.sent,
                      IF Raised(labelled.ret) THEN labelled.ret ELSE error)

\* lines 41-48: result is what func() returns or raises; Action is the class
\* the handler names, whatever class the function belongs to
catch_errors(action, issue_number, error_msg, result, responses) ==
    IF ~Raised(result) THEN Requested(<<>>, None)
    ELSE IF result.exc = "ActionCaughtError" \/ ~IsException(result)
    THEN Requested(<<>>, result)
    ELSE label_and_raise(action, issue_number, result,
             add_error_comment_to_issue(action, issue_number, error_msg, responses[1]),
             responses[2])
\* the class Action as the module defines it, and with gh_auth set on the class
ActionClasses ==
    { [cls |-> "type", name |-> "Action", has_gh_auth |-> FALSE, gh_auth |-> None],
      [cls |-> "type", name |-> "Action", has_gh_auth |-> TRUE,
       gh_auth |-> PyTuple(<<Str("user"), Str("token")>>)] }

\* the responses of GitHub
GitHubResponses ==
    { [status_code |-> 200, reason |-> "OK", content |-> [body |-> "[]", size |-> 2],
       json |-> PyList(<<>>)],
      [status_code |-> 201, reason |-> "Created", content |-> [body |-> "[{}]", size |-> 4],
       json |-> PyList(<<Dict([name |-> Str("Validated")])>>)],
      [status_code |-> 300, reason |-> "Multiple Choices",
       content |-> [body |-> "choices", size |-> 7], json |-> Dict([message |-> Str("choices")])],
      [status_code |-> 404, reason |-> "Not Found",
       content |-> [body |-> "not found", size |-> 9], json |-> Dict([message |-> Str("Not Found")])] }

\* the default of error_msg, as its lines
DefaultErrorMsg == <<"Sorry. We encountered an unexpected error. Our team will review the error.">>

\* what the function given to catch_errors does: it returns, or raises
FunctionResults ==
    {None, RaiseMsg("ActionCaughtError", "reported"),
     RaiseMsg("ValueError", "invalid"), RaiseMsg("SystemExit", "")}

InitAction ==
    /\ pc = "start"
    /\ cls = "Action"
    /\ obj \in ActionClasses
    /\ json = <<>>
    /\ other = [calls |-> 0, sent |-> <<>>, func |-> None]
    /\ ret = None

\* the method has run
EndOperation(method, requested, func) ==
    /\ other.calls < MaxOperations
    /\ json' = json \o requested.sent
    /\ other' = [calls |-> other.calls + 1, sent |-> requested.sent, func |-> func]
    /\ ret' = requested.ret
    /\ pc' = method
    /\ UNCHANGED <<cls, obj>>

GetIssue ==
    \E response \in GitHubResponses :
        EndOperation("get_issue", get_issue(obj, "1", response), None)

GetLabelsForIssue ==
    \E response \in GitHubResponses :
        EndOperation("get_labels_for_issue", get_labels_for_issue(obj, "1", response),
                     None)

AddLabelsToIssue ==
    \E response \in GitHubResponses :
        EndOperation("add_labels_to_issue",
                     add_labels_to_issue(obj, "1", <<"Validated">>, response), None)

RemoveLabelFromIssue ==
    \E response \in GitHubResponses :
        EndOperation("remove_label_from_issue",
                     remove_label_from_issue(obj, "1", "Validated", response), None)

AddCommentToIssue ==
    \E response \in GitHubResponses :
        EndOperation("add_comment_to_issue",
                     add_comment_to_issue(obj, "1", "Thank you", response), None)

AddErrorCommentToIssue ==
    \E response \in GitHubResponses :
        EndOperation("add_error_comment_to_issue",
                     add_error_comment_to_issue(obj, "1", <<"Invalid", "submission">>, response),
                     None)

CloseIssue ==
    \E response \in GitHubResponses :
        EndOperation("close_issue", close_issue(obj, "1", response), None)

\* ActionErrorHandling.catch_errors(issue_number)(func): func is called, and
\* GitHub answers the requests of the handler with responses
CatchErrors ==
    \E result \in FunctionResults, responses \in GitHubResponses \X GitHubResponses :
        EndOperation("catch_errors", catch_errors(obj, "1", DefaultErrorMsg, result, responses),
                     result)

NextAction ==
    \/ GetIssue
    \/ GetLabelsForIssue
    \/ AddLabelsToIssue
    \/ RemoveLabelFromIssue
    \/ AddCommentToIssue
    \/ AddErrorCommentToIssue
    \/ CloseIssue
    \/ CatchErrors

SpecAction == InitAction /\ [][NextAction]_vars
(***************************************************************************)
(* Claims about the CI actions                                             *)
(***************************************************************************)
\* the operations on GitHub of C23
GitHubOperations ==
    {"get_issue", "get_labels_for_issue", "add_labels_to_issue", "remove_label_from_issue",
     "add_comment_to_issue", "close_issue"}

\* the exception classes the package defines
PackageErrors == {"BiomodelIoError", "ActionCaughtError"}

\* the call made last got a response that is not 2xx
Not2xxReceived == other.sent # <<>> /\ IsNot2xx(other.sent[1].response)

\* C23: every operation on GitHub that gets a response that is not 2xx raises
\* an error of the package that carries the body of the response; the
\* response is not swallowed and the request is not sent again
C23_GitHubErrorRaised ==
    (pc \in GitHubOperations /\ Not2xxReceived) =>
        /\ Raised(ret)
        /\ ret.exc \in PackageErrors
        /\ ret.msg = other.sent[1].response.content.body
        /\ Len(other.sent) = 1

\* the handler has run for a function and GitHub has accepted every request
HandledWith(results) ==
    /\ pc = "catch_errors"
    /\ other.func \in results
    /\ obj.has_gh_auth
    /\ \A i \in DOMAIN other.sent : ~IsNot2xx(other.sent[i].response)

\* the requests of the call made last: what was posted where
Posted == [i \in DOMAIN other.sent |-> <<other.sent[i].method, other.sent[i].url, other.sent[i].json>>]

\* C24: when the function raises an exception that is no ActionCaughtError the
\* error comment is posted, then the label 'Action error' is added, then the
\* exception of the function propagates; an ActionCaughtError propagates
\* with no comment and no label; nothing is posted when the function returns
C24_ErrorReported ==
    /\ HandledWith({RaiseMsg("ValueError", "invalid")}) =>
           /\ Posted = << <<"post", ISSUE_COMMENTS_ENDPOINT("1"),
                            [body |-> DiffOf(DefaultErrorMsg)]>>,
                          <<"post", ISSUE_LABELS_ENDPOINT("1"),
                            [labels |-> <<"Action error">>]>> >>
           /\ ret = other.func
    /\ HandledWith({RaiseMsg("ActionCaughtError", "reported")}) =>
           Posted = <<>> /\ ret = other.func
    /\ HandledWith({None}) => Posted = <<>> /\ ~Raised(ret)
(***************************************************************************)
(* One reader, several runs (biomodel/core.py, biomodel/sbml.py)           *)
(*                                                                         *)
(* json is the file system, obj the reader, other the objects made so far  *)
(* (the Format objects, of which the first is BiomodelFormat.sbml.value,   *)
(* and for each run the Biomodel and the units map it made), ret the       *)
(* value the last run returned or the exception it raised.                 *)
(***************************************************************************)
\* most runs of a reader in a behaviour
MaxRuns == 2

\* a reference to the i-th Format object
FormatRef(i) == [cls |-> "ref", to |-> "Format", at |-> i]

\* the arguments of a statement of run, of the local variables
ArgsOf(statement, locals) == [k \in DOMAIN statement.args |-> locals[statement.args[k]]]

\* the statements of run from the i-th on, for the local variables and the
\* Biomodel as they are before it; run_next is what follows the i-th, whose
\* call has the outcome
RECURSIVE run_from(_, _, _, _)
RECURSIVE run_next(_, _, _, _)
run_next(i, fs, locals, outcome) ==
    IF Raised(outcome.ret) THEN outcome
    ELSE run_from(i + 1, fs,
                  IF run_body[i].target = "" THEN locals
                  ELSE [locals EXCEPT ![run_body[i].target] = outcome.ret],
                  outcome.model)

run_from(i, fs, locals, model) ==
    IF i > Len(run_body) THEN Outcome(model, locals.model)
    ELSE run_next(i, fs, locals,
                  CallMethod(run_body[i].call, fs, ArgsOf(run_body[i], locals), model))

\* lines 35-45 of biomodel/core.py: the Biomodel run makes of the file, and
\* the value returned or the exception raised
run(self, fs, filename) ==
    run_from(1, fs,
             [filename |-> filename, model |-> ModelRef, model_orig |-> None, units |-> None],
             Biomodel)

\* variant: the format of the model is the constant itself
copy_Same(formats, i) == [formats |-> formats, ref |-> FormatRef(i)]

\* copy.copy(BiomodelFormat.sbml.value), line 87 of biomodel/sbml.py: a new
\* Format object with the attributes of the i-th
copy(formats, i) == [formats |-> Append(formats, formats[i]), ref |-> FormatRef(Len(formats) + 1)]

\* lines 87-88 of biomodel/sbml.py among the objects: model.format is a copy
\* of the constant, and the version is set on model.format
format_of(formats, model) ==
    LET copied == copy(formats, 1)
    IN IF model.format = None THEN [formats |-> formats, ref |-> None]
       ELSE [formats |-> [copied.formats EXCEPT ![copied.ref.at].version = model.format.version],
             ref |-> copied.ref]

\* the Biomodel with its Format object in place of the reference to it
Dereferenced(formats, model) ==
    IF model = None \/ model.format = None THEN model
    ELSE [model EXCEPT !.format = formats[model.format.at]]

\* the files a reader is run on
ReusedModels ==
    ModelsOfLevels
    \cup {[EmptySbmlModel EXCEPT !.id = "m2", !.parameters = parameters, !.plugins = plugins] :
             parameters \in GlobalParameterLists, plugins \in {{}, {"fbc", "qual"}}}
    \cup {None}

ReusedFileSystems ==
    {[filename \in {"a.xml", "b.xml"} |->
         [size |-> 100, model |-> IF filename = "a.xml" THEN a ELSE b]] :
        a \in ReusedModels, b \in ReusedModels}

\* SbmlBiomodelReader()
InitReuse ==
    /\ pc = "constructed"
    /\ cls = "SbmlBiomodelReader"
    /\ json \in ReusedFileSystems
    /\ obj = [cls |-> "SbmlBiomodelReader", filename |-> None, logger |-> "sbml"]
    /\ other = [formats |-> <<BiomodelFormat_sbml>>, runs |-> <<>>]
    /\ ret = None

\* the Biomodel a run returns, with the reference to its Format object
ReturnedModel(outcome, made) ==
    IF Raised(outcome.ret) THEN None ELSE [outcome.model EXCEPT !.format = made.ref]

\* the run of the reader on the file has ended with the outcome, and has made
\* the Format object
EndRun(filename, outcome, made) ==
    /\ obj' = [obj EXCEPT !.filename = filename]
    /\ other' = [formats |-> made.formats,
                 runs |-> Append(other.runs,
                             [filename |-> filename,
                              model |-> ReturnedModel(outcome, made),
                              returned |-> Dereferenced(made.formats, ReturnedModel(outcome, made)),
                              ret |-> outcome.ret])]
    /\ ret' = outcome.ret
    /\ pc' = IF Raised(outcome.ret) THEN "raised" ELSE "returned"
    /\ UNCHANGED <<cls, json>>

\* the Format object the run makes for the Biomodel of the outcome
MakeFormat(filename, outcome) == EndRun(filename, outcome, format_of(other.formats, outcome.model))

\* reader.run(filename): the run makes a Biomodel and a units map, which are
\* new objects, and the Format object of the Biomodel
ReaderRun ==
    /\ Len(other.runs) < MaxRuns
    /\ \E filename \in DOMAIN json : MakeFormat(filename, run(obj, json, filename))

NextReuse == ReaderRun

SpecReuse == InitReuse /\ [][NextReuse]_vars

(***************************************************************************)
(* Claims about the runs of one reader                                     *)
(***************************************************************************)
\* the Biomodel of the outcome with the Format object made for it
FreshModel(outcome, made) ==
    [returned |-> Dereferenced(made.formats, ReturnedModel(outcome, made)), ret |-> outcome.ret]

FreshFormat(outcome) == FreshModel(outcome, format_of(<<BiomodelFormat_sbml>>, outcome.model))

\* what the first run of a new reader gives for the file: the Biomodel with
\* its Format object, and the value returned or the exception raised
FreshRun(filename) ==
    FreshFormat(run([cls |-> "SbmlBiomodelReader", filename |-> None, logger |-> "sbml"],
                    json, filename))

\* the runs that returned a Biomodel
Returned == {k \in DOMAIN other.runs : other.runs[k].model # None}

\* C25: the runs of a reader share no state (each run builds a new Model and
\* a new units map, which are local to run): a run returns the Model a new
\* reader returns for the file, the Models of the runs before it stay as they
\* were returned, with their format versions, the SBML format constant is not
\* altered, and each run has its own Format object
C25_RunsShareNothing ==
    /\ \A k \in DOMAIN other.runs :
           [returned |-> other.runs[k].returned, ret |-> other.runs[k].ret]
               = FreshRun(other.runs[k].filename)
    /\ \A k \in Returned :
           Dereferenced(other.formats, other.runs[k].model) = other.runs[k].returned
    /\ other.formats[1] = BiomodelFormat_sbml
    /\ \A j, k \in Returned :
           j # k => other.runs[j].model.format.at # other.runs[k].model.format.at

\* a reader has read a file and then a file of another level and version, and
\* has returned a Model for each
C25_Witness ==
    /\ Len(other.runs) = 2
    /\ Returned = {1, 2}
    /\ other.runs[1].filename = "a.xml"
    /\ other.runs[2].filename = "b.xml"
    /\ other.runs[1].returned.format.version # other.runs[2].returned.format.version
\* _read_parameters has returned or raised
ParametersCalled == \E i \in DOMAIN other.calls : other.calls[i].call = "read_parameters"

\* the reader's model has the fbc package and an active objective with at
\* least one flux objective
HasFluxObjective ==
    /\ "fbc" \in other.model_orig.plugins
    /\ ReferencesResolve(other.model_orig)
    /\ Len(other.model_orig.activeObjective.fluxObjectives) >= 1

\* C28: for every fbc model that has an active objective with at least one
\* flux objective, whether or not a species sets an initial amount or
\* concentration, _read_parameters returns and raises nothing
C28_ParametersOfFbcRead ==
    (ParametersCalled /\ HasFluxObjective) => ParametersRead
\* the ids of the parameters, compartments, species and reactions of the SBML
\* model are distinct, and no two rules have the same variable
UniqueSIds(model_sbml) ==
    LET elements == model_sbml.parameters \o model_sbml.compartments
                    \o model_sbml.species \o model_sbml.reactions
    IN /\ DistinctIds(elements)
       /\ \A i \in DOMAIN model_sbml.qualitativeSpecies :
              \A j \in DOMAIN elements : model_sbml.qualitativeSpecies[i].id # elements[j].id
       /\ \A i, j \in DOMAIN model_sbml.rules :
              model_sbml.rules[i].variable = model_sbml.rules[j].variable => i = j

\* the scalar rules of the reader's model whose variable is a global
\* parameter or a compartment
RulesOfParameters ==
    {i \in DOMAIN other.model_orig.rules :
        /\ other.model_orig.rules[i].isScalar
        /\ Truthy(getElementBySId(other.model_orig, other.model_orig.rules[i].variable))
        /\ getElementBySId(other.model_orig, other.model_orig.rules[i].variable).cls
               \in {"libsbml.Parameter", "libsbml.Compartment"}}

\* how many elements of the sequence have the id
CountOfId(elements, id) == Cardinality({i \in DOMAIN elements : elements[i].id = Str(id)})

\* the target of the parameter made for the element itself: the value of a
\* global parameter, the size of a compartment
OwnTarget(element) ==
    IF element.cls = "libsbml.Parameter"
    THEN Str(Path(<<"sbml:sbml", "sbml:model", "sbml:listOfParameters",
                    "sbml:parameter[@id='" \o element.id \o "']", "@value">>))
    ELSE Str("/sbml:sbml/sbml:model/sbml:listOfCompartments/sbml:compartment[@id='"
             \o element.id \o "']/@size")

\* the rule is exposed once: as the parameter assignment_<id> and as no
\* variable when its math is a constant, as the variable <id> and as no
\* parameter otherwise; the parameter of the target itself is absent
ExposedOnce(rule_sbml) ==
    LET id == rule_sbml.variable
        constant == Truthy(read_constant_from_math(rule_sbml.math)[1])
    IN /\ CountOfId(obj.parameters.items, "assignment_" \o id) = (IF constant THEN 1 ELSE 0)
       /\ CountOfId(obj.variables.items, id) = (IF constant THEN 0 ELSE 1)
       /\ \A i \in DOMAIN obj.parameters.items :
              obj.parameters.items[i].target # OwnTarget(getElementBySId(other.model_orig, id))

\* C29: in the Model returned for a model without fbc, each scalar assignment
\* rule on a global parameter or a compartment is exposed exactly once, as the
\* parameter assignment_<id> when its math is a constant integer or real and
\* as the variable <id> otherwise, and the parameter of its target is absent
C29_RuleExposedOnce ==
    (pc = "returned" /\ "fbc" \notin other.model_orig.plugins /\ UniqueSIds(other.model_orig)) =>
        \A i \in RulesOfParameters : ExposedOnce(other.model_orig.rules[i])

====
